---- MODULE Spec2Model ----
(***************************************************************************)
(* Model of obfuscate.h: the build-time injection-construction engine      *)
(* (seed generator, cost model, strategy selector, the six injection       *)
(* versions, the literal leaf contexts, the budget splitter) and the       *)
(* run-time behaviour of obf_literal / obf_var built from it.              *)
(*                                                                         *)
(* An unsigned integer of sizeof n is the little-endian sequence of its n  *)
(* bytes, so that 64-bit seeds and 32/64-bit values are computed exactly   *)
(* with wraparound modulo 2^(8n).                                          *)
(***************************************************************************)
EXTENDS Integers, Sequences, FiniteSets, TLC

VARIABLES
    site,       \* the declaration compiled: kind, sizeof(T), source line, budget
    pending,    \* the instantiations requested and not yet made, oldest first
    tree,       \* the instances made so far, by their path from an object
    charged,    \* per budget (an object's, an embedded literal's): cycles charged
    env,        \* the process: obf_peb[2] and whether anti-debug is compiled out
    val,        \* each object's member val (None before its constructor)
    shadow,     \* each object's logical value: C, or what was last assigned
    statics,    \* the static members c of the literal context versions 1 and 4
    th,         \* each thread: the operation it runs, its call stack, the
                \* value its last call returned
    ncalls,     \* operations started on constructed objects
    failed,     \* an assert has failed at run time
    inv,        \* the locals of a running obf_mul_inverse_mod2n
    ec,         \* the locals of a running obf_exp_cycles
    call        \* a call of a selection or splitting function: arguments, result

vars == <<site, pending, tree, charged, env, val, shadow, statics, th, ncalls, failed,
          inv, ec, call>>

---------------------------------------------------------------------------
(* Fixed-width unsigned arithmetic on little-endian byte sequences.        *)

Byte == 256

\* the code computes v before it goes on with e (TLC would otherwise put
\* off evaluating an argument until its first use, nesting the evaluations)
Eager(v, e) == IF v = v THEN e ELSE e

\* the bytes of sum(cols[k] * Byte^(k-1)) + cin, for at most 9 columns: t1..t9
\* are the column totals with the carry of the column before
Carry(cols, cin) ==
    LET n      == Len(cols)
        col(k) == IF k <= n THEN cols[k] ELSE 0
        t1 == col(1) + cin
        t2 == col(2) + t1 \div Byte
        t3 == col(3) + t2 \div Byte
        t4 == col(4) + t3 \div Byte
        t5 == col(5) + t4 \div Byte
        t6 == col(6) + t5 \div Byte
        t7 == col(7) + t6 \div Byte
        t8 == col(8) + t7 \div Byte
        t9 == col(9) + t8 \div Byte
    IN  SubSeq(<<t1 % Byte, t2 % Byte, t3 % Byte, t4 % Byte, t5 % Byte,
                 t6 % Byte, t7 % Byte, t8 % Byte, t9 % Byte>>, 1, n)

\* sum of a[i] * b[k + 1 - i] over i in lo..hi
RECURSIVE ColSum(_, _, _, _, _)
ColSum(a, b, k, lo, hi) ==
    IF lo = hi THEN a[lo] * b[k + 1 - lo]
    ELSE ColSum(a, b, k, lo, (lo + hi) \div 2) + ColSum(a, b, k, (lo + hi) \div 2 + 1, hi)

\* a sum whose carries are dropped
AddNoCarry(a, b) == [k \in 1..Len(a) |-> (a[k] + b[k]) % Byte]
Add(a, b) == Carry([k \in 1..Len(a) |-> a[k] + b[k]], 0)
Sub(a, b) == Carry([k \in 1..Len(a) |-> a[k] + 255 - b[k]], 1)
Mul(a, b) == Carry([k \in 1..Len(a) |-> ColSum(a, b, k, 1, k)], 0)

\* T(v) for a non-negative int v
FromNat(v, n) == Carry([k \in 1..n |-> IF k = 1 THEN v ELSE 0], 0)

RECURSIVE ToNatFrom(_, _)
ToNatFrom(a, k) == IF k > Len(a) THEN 0 ELSE a[k] + Byte * ToNatFrom(a, k + 1)
\* the value of a, for sizeof <= 2 (and for wider a whose high bytes are 0)
ToNat(a) == ToNatFrom(a, 1)

\* halfT(x), x >> halfTBits, (T(hi) << halfTBits) + T(lo)
LoHalf(a) == SubSeq(a, 1, Len(a) \div 2)
\* the low half taken for the high half
SameHalf(a) == SubSeq(a, 1, Len(a) \div 2)
HiHalf(a) == SubSeq(a, Len(a) \div 2 + 1, Len(a))
Join(lo, hi) == lo \o hi

RECURSIVE XorNat(_, _)
XorNat(a, b) ==
    IF a = 0 THEN b
    ELSE IF b = 0 THEN a
    ELSE (((a % 2) + (b % 2)) % 2) + 2 * XorNat(a \div 2, b \div 2)

Xor(a, b) == [k \in 1..Len(a) |-> XorNat(a[k], b[k])]

\* a % n for a sequence a and an int 0 < n < 2^22 (long division, high byte first)
RECURSIVE ModFrom(_, _, _, _)
ModFrom(a, n, k, r) ==
    IF k = 0 THEN r
    ELSE LET t == (r * Byte + a[k]) % n IN Eager(t, ModFrom(a, n, k - 1, t))
ModNat(a, n) == ModFrom(a, n, Len(a), 0)

\* a / n for a sequence a and an int 0 < n < 2^22
RECURSIVE DivFrom(_, _, _, _)
DivFrom(a, n, k, r) ==
    IF k = 0 THEN <<>>
    ELSE LET t == r * Byte + a[k]
         IN  Eager(t, DivFrom(a, n, k - 1, t % n) \o <<t \div n>>)
DivNat(a, n) == DivFrom(a, n, Len(a), 0)

---------------------------------------------------------------------------
(* Seed generation and cost model.                                         *)

\* UINT64_C(6364136223846793005), UINT64_C(1442695040888963407)
LcgMul == <<45, 127, 149, 76, 45, 244, 81, 88>>
LcgInc == <<79, 129, 103, 247, 126, 123, 5, 20>>

\* a generator that takes one step whatever the iteration
PrngOnce(seed, iteration) == Add(Mul(LcgMul, seed), LcgInc)

RECURSIVE obf_compile_time_prng(_, _)
obf_compile_time_prng(seed, iteration) ==
    IF iteration = 0 THEN seed
    ELSE LET next == Add(Mul(LcgMul, seed), LcgInc)
         IN  Eager(next, obf_compile_time_prng(next, iteration - 1))

\* (seed >> (sizeof(OBFSEED)*4)) % n
obf_weak_random(seed, n) == ModNat(HiHalf(seed), n)

\* OBFCYCLES is int32_t
Int32Max == 2147483647

\* the int32_t a 4-byte pattern denotes
ToInt32(a) ==
    a[1] + Byte * a[2] + Byte * Byte * a[3]
    + Byte * Byte * Byte * (IF a[4] >= 128 THEN a[4] - Byte ELSE a[4])

\* ret *= m on an OBFCYCLES: v the value a build that wraps leaves in ret,
\* overflow = the product is not representable (signed overflow)
TimesInt32(ret, m) ==
    [v |-> ToInt32(Mul(FromNat(ret, 4), FromNat(m, 4))),
     overflow |-> IF ret >= 0 THEN ret > Int32Max \div m
                  ELSE ret < (0 - Int32Max) \div m]

\* a start that forgets the factor 3 of an odd exp
ExpStartEven(exp) ==
    IF exp < 0 THEN [pc |-> "done", ret |-> 0, exp |-> exp, i |-> 0, ub |-> FALSE]
    ELSE [pc |-> "loop", ret |-> 1, exp |-> exp \div 2, i |-> 0, ub |-> FALSE]

\* obf_exp_cycles up to the for loop (lines 70-78): ret, the loop bound exp
\* and i; pc = "done" once the function has returned ret
ExpStart(exp) ==
    IF exp < 0 THEN [pc |-> "done", ret |-> 0, exp |-> exp, i |-> 0, ub |-> FALSE]
    ELSE [pc  |-> "loop",
          ret |-> IF exp % 2 = 1 THEN TimesInt32(1, 3).v ELSE 1,
          exp |-> (IF exp % 2 = 1 THEN exp - 1 ELSE exp) \div 2,
          i   |-> 0, ub |-> FALSE]

\* one evaluation of the loop condition and, if it holds, of the body
ExpLoopStep(s) ==
    IF s.i < s.exp
    THEN [s EXCEPT !.ret = TimesInt32(s.ret, 10).v, !.i = s.i + 1,
                   !.ub = s.ub \/ TimesInt32(s.ret, 10).overflow]
    ELSE [s EXCEPT !.pc = "done"]

RECURSIVE ExpLoop(_)
ExpLoop(s) == IF s.pc = "done" THEN s.ret ELSE ExpLoop(ExpLoopStep(s))

\* OBFCYCLES obf_exp_cycles(int exp)
obf_exp_cycles(exp) == ExpLoop(ExpStart(exp))

\* obf_seed_from_file_line(file, line): file is the string's characters
\* the loop over the characters file[lo..hi], taken half by half
\* a loop whose body is ret = ret * 33 + ret + *p
RECURSIVE Djb2Times34(_, _, _, _)
Djb2Times34(ret, file, lo, hi) ==
    IF lo > hi THEN ret
    ELSE Djb2Times34(Add(Add(Mul(ret, FromNat(33, 8)), ret), FromNat(file[lo], 8)),
                     file, lo + 1, hi)

RECURSIVE Djb2(_, _, _, _)
Djb2(ret, file, lo, hi) ==
    IF lo > hi THEN ret
    ELSE IF lo = hi
    THEN Add(Add(Mul(ret, FromNat(32, 8)), ret), FromNat(file[lo], 8))
    ELSE LET half == Djb2(ret, file, lo, (lo + hi) \div 2)
         IN  Eager(half, Djb2(half, file, (lo + hi) \div 2 + 1, hi))

obf_seed_from_file_line(bs, file, line) ==
    LET ret == Djb2(Xor(bs, FromNat(line, 8)), file, 1, Len(file))
    IN  Eager(ret, obf_compile_time_prng(ret, 1))

\* OBF_LOCATION: __FILE__ " : " OBF_S2(__LINE__), as characters (line < 100)
OBF_LOCATION(file, line) ==
    file \o <<32, 58, 32>>
    \o (IF line >= 10 THEN <<48 + (line \div 10)>> ELSE <<>>) \o <<48 + (line % 10)>>

---------------------------------------------------------------------------
(* Strategy selection.  C++ arrays are functions on 0..N-1.  A build-time  *)
(* fatal (failed assert / static_assert, division by zero in a constant    *)
(* expression) is the index Fatal.                                         *)

Fatal == 0 - 1
None == <<>>

RECURSIVE SumUpTo(_, _)
SumUpTo(f, k) == IF k < 0 THEN 0 ELSE f[k] + SumUpTo(f, k - 1)
\* the sum of a C++ array of numbers
SumArr(f) == SumUpTo(f, Cardinality(DOMAIN f) - 1)

\* a walk that stops one weight early: refWeight <= weights[i]
RECURSIVE WalkWeightsInclusive(_, _, _)
WalkWeightsInclusive(weights, i, refWeight) ==
    IF i >= Cardinality(DOMAIN weights) THEN Fatal
    ELSE IF refWeight <= weights[i] THEN i
    ELSE WalkWeightsInclusive(weights, i + 1, refWeight - weights[i])

RECURSIVE WalkWeights(_, _, _)
WalkWeights(weights, i, refWeight) ==
    IF i >= Cardinality(DOMAIN weights) THEN Fatal
    ELSE IF refWeight < weights[i] THEN i
    ELSE WalkWeights(weights, i + 1, refWeight - weights[i])

obf_random_from_list(seed, weights) ==
    LET totalWeight == SumArr(weights)
    IN  IF totalWeight = 0 THEN Fatal
        ELSE WalkWeights(weights, 0, obf_weak_random(seed, totalWeight))

ObfDescriptor(is_recursive_, min_cycles_, weight_) ==
    [is_recursive |-> is_recursive_, min_cycles |-> min_cycles_, weight |-> weight_]

NoExclude == 0 - 1

\* a selector that does not compare the budget with min_cycles
PickWhateverTheCost(seed, cycles, descr, exclude_version) ==
    LET ok(i) == i # exclude_version
        r_weights  == [i \in DOMAIN descr |->
                          IF ok(i) /\ descr[i].is_recursive THEN descr[i].weight ELSE 0]
        nr_weights == [i \in DOMAIN descr |->
                          IF ok(i) /\ ~descr[i].is_recursive THEN descr[i].weight ELSE 0]
    IN  IF SumArr(r_weights) # 0 THEN obf_random_from_list(seed, r_weights)
        ELSE IF SumArr(nr_weights) > 0 THEN obf_random_from_list(seed, nr_weights)
        ELSE Fatal

\* a selector that draws among all the candidates at once
PickUnpartitioned(seed, cycles, descr, exclude_version) ==
    obf_random_from_list(seed, [i \in DOMAIN descr |->
                                   IF i # exclude_version /\ cycles >= descr[i].min_cycles
                                   THEN descr[i].weight ELSE 0])

obf_random_obf_from_list(seed, cycles, descr, exclude_version) ==
    LET ok(i) == i # exclude_version /\ cycles >= descr[i].min_cycles
        r_weights  == [i \in DOMAIN descr |->
                          IF ok(i) /\ descr[i].is_recursive THEN descr[i].weight ELSE 0]
        nr_weights == [i \in DOMAIN descr |->
                          IF ok(i) /\ ~descr[i].is_recursive THEN descr[i].weight ELSE 0]
    IN  IF SumArr(r_weights) # 0 THEN obf_random_from_list(seed, r_weights)
        ELSE IF SumArr(nr_weights) > 0 THEN obf_random_from_list(seed, nr_weights)
        ELSE Fatal

---------------------------------------------------------------------------
(* OBF_CONST_A, OBF_CONST_B, OBF_CONST_C of a build.                       *)

Candidates == (0 :> 3) @@ (1 :> 5) @@ (2 :> 7) @@ (3 :> 15) @@ (4 :> 25) @@ (5 :> 31)

\* a draw that does not look at excluded
ConstXUnfiltered(seed, excluded) ==
    Candidates[obf_random_from_list(seed, [i \in 0..5 |-> 100])]

obf_const_x(seed, excluded) ==
    LET weights == [i \in 0..5 |-> IF Candidates[i] \in excluded THEN 0 ELSE 100]
    IN  Candidates[obf_random_from_list(seed, weights)]

SaltA == <<169, 161, 137, 75, 234, 184, 196, 206>>   \* 0xcec4b8ea4b89a1a9
SaltB == <<170, 208, 161, 111, 113, 35, 236, 94>>    \* 0x5eec23716fa1d0aa
SaltC == <<85, 45, 42, 152, 143, 225, 45, 251>>      \* 0xfb2de18f982a2d55

OBF_CONST_A(bs) == obf_const_x(obf_compile_time_prng(Xor(bs, SaltA), 1), {})
OBF_CONST_B(bs) == obf_const_x(obf_compile_time_prng(Xor(bs, SaltB), 1), {OBF_CONST_A(bs)})
OBF_CONST_C(bs) ==
    obf_const_x(obf_compile_time_prng(Xor(bs, SaltC), 1), {OBF_CONST_A(bs), OBF_CONST_B(bs)})

\* the three constants of build seed bs, as the array { A, B, C }
BuildConsts(bs) == (0 :> OBF_CONST_A(bs)) @@ (1 :> OBF_CONST_B(bs)) @@ (2 :> OBF_CONST_C(bs))

\* lst[obf_weak_random(seed, N)]
obf_random_const(seed, lst) == lst[obf_weak_random(seed, Cardinality(DOMAIN lst))]

---------------------------------------------------------------------------
(* Budget splitting.  The code scales in double precision:                 *)
(*   q = double(leftovers)/double(totalWeight); ret[i] = int(double(r)*q)  *)
(* ScaleShare(r, L, S) is that value for ints r >= 1, L >= 0, S >= r: the  *)
(* exact floor of r*L/S unless r*L/S is an integer k whose computed        *)
(* product falls to the double just below k (q rounded down far enough).   *)

\* 2^n, and 2^n % m for m < 2^15, by squaring
RECURSIVE Pow2(_)
Pow2(n) ==
    IF n = 0 THEN 1
    ELSE LET h == Pow2(n \div 2) IN h * h * (IF n % 2 = 1 THEN 2 ELSE 1)

RECURSIVE Pow2Mod(_, _)
Pow2Mod(n, m) ==
    IF n = 0 THEN 1 % m
    ELSE LET h == Pow2Mod(n \div 2, m) IN (h * h * (IF n % 2 = 1 THEN 2 ELSE 1)) % m

RECURSIVE FloorLog2(_)
FloorLog2(k) == IF k < 2 THEN 0 ELSE 1 + FloorLog2(k \div 2)

\* the binary exponent e of L/S: 2^e <= L/S < 2^(e+1)
RECURSIVE ExpUp(_, _)
ExpUp(L, S) == IF 2 * S <= L THEN 1 + ExpUp(L, 2 * S) ELSE 0
RECURSIVE ExpDown(_, _)
ExpDown(L, S) == IF L < S THEN ExpDown(2 * L, S) - 1 ELSE 0
RatioExp(L, S) == IF L >= S THEN ExpUp(L, S) ELSE ExpDown(L, S)

\* a share rounded up instead of truncated
ShareRoundedUp(r, L, S) == (r * L + S - 1) \div S

ScaleShare(r, L, S) ==
    IF L = 0 THEN 0
    ELSE LET k == (r * L) \div S
         IN  IF (r * L) % S # 0 THEN k
             ELSE LET e    == RatioExp(L, S)
                      a    == FloorLog2(k)
                      p    == 52 - e
                      rem  == (Pow2Mod(p, S) * (L % S)) % S
                      rem2 == (Pow2Mod(p, 2 * S) * (L % (2 * S))) % (2 * S)
                      \* q = L/S rounded to 53 bits was rounded down
                      qdown == \/ 2 * rem < S /\ rem > 0
                               \/ 2 * rem = S /\ ((rem2 - rem) \div S) % 2 = 0
                      u2   == IF k = Pow2(a) THEN Pow2(a - e) ELSE Pow2(a - e + 1)
                  IN  IF qdown /\ 4 * r * rem > u2 * S THEN k - 1 ELSE k

\* a split that grants every element the whole budget
SplitAllToEach(seed, cycles, elements) == [i \in DOMAIN elements |-> cycles]

obf_random_split(seed, cycles, elements) ==
    LET N         == Cardinality(DOMAIN elements)
        leftovers == cycles - SumArr([i \in DOMAIN elements |-> elements[i].min_cycles])
        raw       == [i \in DOMAIN elements |->
                        obf_weak_random(obf_compile_time_prng(seed, i + 1),
                                        elements[i].weight) + 1]
        totalWeight == SumArr(raw)
    IN  IF leftovers < 0 THEN [i \in DOMAIN elements |-> Fatal]
        ELSE [i \in DOMAIN elements |-> ScaleShare(raw[i], leftovers, totalWeight)]

---------------------------------------------------------------------------
(* obf_mul_inverse_mod2n: extended GCD modulo 2^(8*sizeof(T)).             *)

\* a < b, a == 0 on byte sequences of equal length
RECURSIVE LessFrom(_, _, _)
LessFrom(a, b, k) ==
    IF k = 0 THEN FALSE
    ELSE IF a[k] # b[k] THEN a[k] < b[k]
    ELSE LessFrom(a, b, k - 1)
Less(a, b) == LessFrom(a, b, Len(a))
IsZero(a) == \A k \in 1..Len(a) : a[k] = 0

BitOf(a, i) == (a[(i \div 8) + 1] \div Pow2(i % 8)) % 2

\* binary long division a / b, b # 0, over the bits hi..lo of a from the
\* top, taken half by half; st = [q, r] is the quotient so far and the
\* running remainder, which carries one spare byte
\* one bit: q2 and r2 are the quotient and the remainder shifted left, the
\* bit of a shifted in
DivBit(b1, q2, r2) ==
    IF Less(r2, b1) THEN [q |-> q2, r |-> r2]
    ELSE [q |-> Add(q2, FromNat(1, Len(q2))), r |-> Sub(r2, b1)]

RECURSIVE DivBits(_, _, _, _, _)
DivBits(a, b1, hi, lo, st) ==
    IF hi = lo
    THEN DivBit(b1, Carry([k \in 1..Len(st.q) |-> 2 * st.q[k]], 0),
                Carry([k \in 1..Len(st.r) |-> 2 * st.r[k]], BitOf(a, hi)))
    ELSE LET mid  == (hi + lo + 1) \div 2
             half == DivBits(a, b1, hi, mid, st)
         IN  Eager(half, DivBits(a, b1, mid - 1, lo, half))
\* a / b and a % b of T operands, b # 0 (a divisor below 2^16 is divided by
\* bytewise, any other bitwise)
DivMod(a, b) ==
    IF \A k \in 3..Len(b) : b[k] = 0
    THEN [q |-> DivNat(a, ToNat(b)), r |-> FromNat(ModNat(a, ToNat(b)), Len(a))]
    ELSE LET d == DivBits(a, b \o <<0>>, 8 * Len(a) - 1, 0,
                          [q |-> FromNat(0, Len(a)), r |-> FromNat(0, Len(a) + 1)])
         IN  [q |-> d.q, r |-> SubSeq(d.r, 1, Len(a))]
Div(a, b) == DivMod(a, b).q
Mod(a, b) == DivMod(a, b).r

\* the locals of obf_mul_inverse_mod2n; mod = 0 stands for 2^W
InvLocals(num0, mod, num, x, lastx, y, lasty) ==
    [num0 |-> num0, mod |-> mod, num |-> num, x |-> x, lastx |-> lastx,
     y |-> y, lasty |-> lasty]

\* the "zero step" (lines 641-656) for its quotient q and remainder temp1
InvZeroSwap(num, zero, one, q, temp1) ==
    InvLocals(num, num, temp1, Sub(one, Mul(q, zero)), zero, Sub(zero, Mul(q, one)), one)

InvZeroDiv(num, zero, one, two) ==
    InvZeroSwap(num, zero, one, Add(Div(Sub(zero, num), num), one),
                Mod(Add(Mod(Sub(zero, two), num), two), num))

\* the locals after the "zero step"
InvZeroStep(num) ==
    InvZeroDiv(num, FromNat(0, Len(num)), FromNat(1, Len(num)), FromNat(2, Len(num)))

\* an iteration that leaves the quotient out of y
InvLoopSwapPlain(s, d) ==
    InvLocals(s.num0, s.num, d.r, Sub(s.lastx, Mul(d.q, s.x)), s.x, Sub(s.lasty, s.y), s.y)

\* one iteration of the while loop (lines 658-671), d = [q, r] its quotient
\* and remainder
InvLoopSwap(s, d) ==
    InvLocals(s.num0, s.num, d.r, Sub(s.lastx, Mul(d.q, s.x)), s.x,
              Sub(s.lasty, Mul(d.q, s.y)), s.y)

InvLoopStep(s) == InvLoopSwap(s, DivMod(s.mod, s.num))

RECURSIVE InvLoop(_)
InvLoop(s) == IF IsZero(s.num) THEN s.lasty ELSE InvLoop(InvLoopStep(s))

obf_mul_inverse_mod2n(num) ==
    IF num = Sub(FromNat(0, Len(num)), FromNat(1, Len(num))) THEN num
    ELSE InvLoop(InvZeroStep(num))

---------------------------------------------------------------------------
(* Contexts.  A context is a record: kind ("var" ObfVarContext, "lit"      *)
(* ObfLiteralContext, "zero" ObfZeroLiteralContext), the sizeof of its T,  *)
(* its seed, the leaf version it selected and what that version defines.   *)
(* B is the build: B.K its three constants, B.gen the value obf_gen_const  *)
(* yields (its definition is not part of the header).                      *)

OBF_COMPILE_TIME_TESTS == 100

\* ObfVarContext::literal_cycles
VarLiteralCycles == 50

\* a charge of both directions under every context
CalcBoth(ctx, inj, surj) == inj + surj
calc_cycles(ctx, inj, surj) == IF ctx.kind = "var" THEN inj + surj ELSE surj

\* the descriptors of the literal context versions (the header builds under
\* _MSC_VER only, so version 3 is always a candidate)
LitCtxDescr ==
    (0 :> ObfDescriptor(FALSE, 0, 1)) @@ (1 :> ObfDescriptor(TRUE, 6, 100)) @@
    (2 :> ObfDescriptor(TRUE, 20, 100)) @@ (3 :> ObfDescriptor(TRUE, 10, 100)) @@
    (4 :> ObfDescriptor(TRUE, 100, 100))

\* obf_sqrt_very_rough_approximation: linear interpolation between the
\* points (4^j, 2^j); y0 = 2^j is the segment's left end
RECURSIVE SqrtSegment(_, _)
SqrtSegment(x, y0) ==
    IF x < 4 * y0 * y0
    THEN y0 + ((x - y0 * y0) * (2 * y0 - y0)) \div (4 * y0 * y0 - y0 * y0)
    ELSE SqrtSegment(x, 2 * y0)
obf_sqrt_very_rough_approximation(x0) == IF x0 = 0 THEN 0 ELSE SqrtSegment(x0, 1)

\* test_n_iterations(x, n) of version 4 (lines 1011-1018).  TestRun is x
\* after n rounds, or Fatal once an assert on the way has failed; the
\* rounds are taken half by half
RECURSIVE TestRun(_, _, _)
TestRun(x, n, p) ==
    IF x = Fatal \/ n = 0 THEN x
    ELSE IF n = 1
    THEN IF x % p.MOD # p.CC THEN Fatal
         ELSE LET newC == ((x + p.DELTA) % p.DELTAMOD) % p.TSize
              IN  IF newC % p.MOD # p.CC THEN Fatal ELSE newC
    ELSE LET half == TestRun(x, n \div 2, p)
         IN  Eager(half, TestRun(half, n - n \div 2, p))

test_n_iterations(x, n, p) ==
    LET last == TestRun(x, n, p)
    IN  last # Fatal /\ last % p.MOD = p.CC

\* the constants of ObfLiteralContext_version<4,T,seed> for sizeof(T) <= 2
\* (ints; uint8_t / uint16_t operands are promoted to int, results stored
\* in T are reduced modulo 2^W), in the order the class defines them; each
\* stage hands what is defined so far to the next.  ok: every static_assert
\* of the class holds
Version4Checked(TSize, MOD, CC, ADJ0, MUL1, DELTA, MUL2, DELTAMOD, CC0) ==
    [TSize |-> TSize, MOD |-> MOD, CC |-> CC, DELTA |-> DELTA,
     DELTAMOD |-> DELTAMOD, CC0 |-> CC0,
     ok |-> /\ ADJ0 < TSize - 1
            /\ DELTA \div MUL1 = MOD
            /\ DELTAMOD \div MUL2 = MOD
            /\ (CC0 + DELTA) % MOD = CC
            /\ test_n_iterations(CC0, OBF_COMPILE_TIME_TESTS,
                                 [TSize |-> TSize, MOD |-> MOD, CC |-> CC, DELTA |-> DELTA,
                                  DELTAMOD |-> DELTAMOD])]

\* CC0 = (CC + MUL3 * MOD) % DELTAMOD
Version4CC0(TSize, MOD, CC, ADJ0, MUL1, DELTA, MUL2, DELTAMOD, MUL3) ==
    Version4Checked(TSize, MOD, CC, ADJ0, MUL1, DELTA, MUL2, DELTAMOD,
                    ((CC + MUL3 * MOD) % DELTAMOD) % TSize)

\* DELTAMOD = MUL2 * MOD, PREMUL3, MUL3
Version4MUL3(TSize, MOD, seed3, CC, ADJ0, MUL1, DELTA, MUL2) ==
    Version4CC0(TSize, MOD, CC, ADJ0, MUL1, DELTA, MUL2, (MUL2 * MOD) % TSize,
                IF obf_weak_random(seed3, MUL2) > 0 THEN obf_weak_random(seed3, MUL2) ELSE 1)

\* MAXMUL2 = T(-1) / DELTA, MUL2
Version4MUL2(TSize, MOD, seed3, CC, ADJ0, MUL1, DELTA) ==
    Version4MUL3(TSize, MOD, seed3, CC, ADJ0, MUL1, DELTA,
                 IF (TSize - 1) \div DELTA > 2
                 THEN (1 + obf_weak_random(seed3, (TSize - 1) \div DELTA)) % TSize
                 ELSE 1)

\* DELTA = MUL1 * MOD
Version4DELTA(TSize, MOD, seed3, CC, ADJ0, MUL1) ==
    Version4MUL2(TSize, MOD, seed3, CC, ADJ0, MUL1, (MUL1 * MOD) % TSize)

\* MAXMUL1 = T(-1) / MOD, MUL1
Version4MUL1(TSize, MOD, seed2, seed3, CC, ADJ0) ==
    Version4DELTA(TSize, MOD, seed3, CC, ADJ0,
                  IF (TSize - 1) \div MOD > 2
                  THEN (1 + obf_weak_random(seed2, ADJ0 % TSize)) % TSize
                  ELSE 1)

\* CC, ADJ0 = obf_sqrt_very_rough_approximation(MAXMUL1)
Version4CC(TSize, MOD, seed2, seed3) ==
    Version4MUL1(TSize, MOD, seed2, seed3, obf_weak_random(seed2, MOD),
                 obf_sqrt_very_rough_approximation((TSize - 1) \div MOD))

\* PREMOD = obf_gen_const(...) & (2^(4*sizeof(T)) - 1), MOD
Version4Params(bytes, seed, gen) ==
    Version4CC(Pow2(8 * bytes),
               IF gen % Pow2(4 * bytes) = 0 THEN 100 ELSE gen % Pow2(4 * bytes),
               obf_compile_time_prng(seed, 2), obf_compile_time_prng(seed, 3))

NoParams == [ok |-> TRUE]

ObfVarContext(bytes, seed, cycles) ==
    [kind |-> "var", bytes |-> bytes, seed |-> seed, cycles |-> cycles, which |-> 0,
     context_cycles |-> 0, literal_cycles |-> VarLiteralCycles,
     CC |-> FromNat(0, bytes), p |-> NoParams]

ObfZeroLiteralContext(bytes) ==
    [kind |-> "zero", bytes |-> bytes, seed |-> FromNat(0, 8), cycles |-> 0, which |-> 0,
     context_cycles |-> 0, literal_cycles |-> 0,
     CC |-> FromNat(0, bytes), p |-> NoParams]

\* ObfLiteralContext_version<which, T, seed>; p: version 4's constants
ObfLiteralContext_version(which, bytes, seed, cycles, B, p) ==
    [kind |-> "lit", bytes |-> bytes, seed |-> seed, cycles |-> cycles, which |-> which,
     context_cycles |-> IF which = Fatal THEN 0 ELSE LitCtxDescr[which].min_cycles,
     literal_cycles |-> 0,
     CC |-> IF which \in {1, 3}
            THEN FromNat(obf_random_const(obf_compile_time_prng(seed, 1), B.K), bytes)
            ELSE IF which = 4 THEN FromNat(p.CC, bytes)
            ELSE FromNat(0, bytes),
     p |-> p]

\* ObfLiteralContext<T, seed, cycles> for the version which it selects
ObfLiteralContextOf(which, bytes, seed, cycles, B) ==
    ObfLiteralContext_version(which, bytes, seed, cycles, B,
                              IF which = 4 THEN Version4Params(bytes, seed, B.gen)
                              ELSE NoParams)

ObfLiteralContext(bytes, seed, cycles, B) ==
    ObfLiteralContextOf(obf_random_obf_from_list(obf_compile_time_prng(seed, 1), cycles,
                                                 LitCtxDescr, NoExclude),
                        bytes, seed, cycles, B)

\* ObfRecursiveContext<T, Context, seed, cycles>::side_context_type (side)
\* or ::recursive_context_type
ObfRecursiveContext(bytes, ctx, seed, cycles, side, B) ==
    IF ctx.kind = "zero" THEN ObfZeroLiteralContext(bytes)
    ELSE IF ctx.kind = "var" THEN ObfVarContext(bytes, seed, cycles)
    ELSE ObfLiteralContext(bytes, obf_compile_time_prng(seed, IF side THEN 2 ELSE 1),
                           cycles, B)

\* Context::literal<T, C, seed>::type is obf_literal_ctx over this context
\* with Context::literal_cycles cycles
LiteralContextOf(ctx, B) ==
    IF ctx.kind = "var"
    THEN ObfLiteralContext(ctx.bytes, ctx.seed, VarLiteralCycles, B)
    ELSE ObfZeroLiteralContext(ctx.bytes)

---------------------------------------------------------------------------
(* The injection versions' descriptors.                                    *)

own_min_injection_cycles(which, ctx) ==
    CASE which = 0 -> 0 [] which = 1 -> 1 [] which = 2 -> 7 [] which = 3 -> 7
      [] which = 4 -> 3 + ctx.literal_cycles [] which = 5 -> 3

own_min_surjection_cycles(which) ==
    CASE which = 0 -> 0 [] which = 1 -> 1 [] which = 2 -> 7 [] which = 3 -> 7
      [] which = 4 -> 3 [] which = 5 -> 3

\* an own cost that leaves the context's cost out
OwnCostAlone(which, ctx) ==
    calc_cycles(ctx, own_min_injection_cycles(which, ctx), own_min_surjection_cycles(which))

own_min_cycles(which, ctx) ==
    ctx.context_cycles
    + calc_cycles(ctx, own_min_injection_cycles(which, ctx), own_min_surjection_cycles(which))

\* descriptors that switch every recursive version off at sizeof(T) = 1
VersionDescrNarrowOff(which, bytes, ctx) ==
    IF which = 0 THEN ObfDescriptor(FALSE, own_min_cycles(0, ctx), 1)
    ELSE IF ~(bytes > 1) THEN ObfDescriptor(FALSE, 0, 0)
    ELSE ObfDescriptor(TRUE, own_min_cycles(which, ctx), 100)

\* descriptors that do not look at sizeof(T)
VersionDescrAnyWidth(which, bytes, ctx) ==
    IF which = 0 THEN ObfDescriptor(FALSE, own_min_cycles(0, ctx), 1)
    ELSE ObfDescriptor(TRUE, own_min_cycles(which, ctx), 100)

\* obf_injection_version<which>_descr<T, Context>::descr
VersionDescr(which, bytes, ctx) ==
    IF which = 0 THEN ObfDescriptor(FALSE, own_min_cycles(0, ctx), 1)
    ELSE IF which \in {2, 3, 5} /\ ~(bytes > 1) THEN ObfDescriptor(FALSE, 0, 0)
    ELSE ObfDescriptor(TRUE, own_min_cycles(which, ctx), 100)

\* obf_injection<T, Context, ...>::descr
InjectionDescr(bytes, ctx) == [which \in 0..5 |-> VersionDescr(which, bytes, ctx)]

Split2 == (0 :> ObfDescriptor(TRUE, 0, 100)) @@ (1 :> ObfDescriptor(TRUE, 0, 100))
Split3 == (0 :> ObfDescriptor(TRUE, 0, 200)) @@ (1 :> ObfDescriptor(TRUE, 0, 100)) @@
          (2 :> ObfDescriptor(TRUE, 0, 100))

---------------------------------------------------------------------------
(* Instantiation.  The compiler instantiates one class template at a time: *)
(* obf_injection<T, Context, seed, cycles, InjectionContext> (tmpl "inj")  *)
(* or obf_randomized_polynomial_function_helper<T, seed, cycles> (tmpl     *)
(* "poly").  An instance records the template arguments, what the class    *)
(* computes from them, and in kids the instantiations its members name:    *)
(* rec (RecursiveInjection), f (the polynomial of version 2), next (the    *)
(* next helper), lit (the embedded literal's Injection), lo and hi (the    *)
(* lanes' injections).  fatal: a static_assert of the class fails.         *)

Request(tmpl, bytes, ctx, seed, cycles, exclude_version) ==
    [tmpl |-> tmpl, bytes |-> bytes, ctx |-> ctx, seed |-> seed, cycles |-> cycles,
     exclude_version |-> exclude_version]

NoKids == <<>>
KidOf(l, r) == << [l |-> l, req |-> r] >>

\* obf_randomized_polynomial_function_helper<T, seed, cycles>
PolyHelper(r) ==
    LET is_id   == r.cycles = 0
        is_plus == ~is_id /\ r.cycles < 3
        which   == obf_random_from_list(obf_compile_time_prng(r.seed, 1),
                                        (0 :> 100) @@ (1 :> 100))
        op      == IF is_id THEN "id" ELSE IF is_plus THEN "plus"
                   ELSE IF which # 0 THEN "mul" ELSE "add"
    IN  [tmpl |-> "poly", op |-> op, bytes |-> r.bytes, seed |-> r.seed,
         cycles |-> r.cycles, ctx |-> r.ctx, fatal |-> FALSE,
         kids |-> CASE op = "mul" ->
                         KidOf("next", Request("poly", r.bytes, r.ctx,
                                                 obf_compile_time_prng(r.seed, 2),
                                                 r.cycles - 3, NoExclude))
                    [] op = "add" ->
                         KidOf("next", Request("poly", r.bytes, r.ctx,
                                                 obf_compile_time_prng(r.seed, 3),
                                                 r.cycles - 1, NoExclude))
                    [] OTHER -> NoKids]

\* a pool whose first entry is 0
ConstsWithZero(K) == (0 :> 0) @@ (1 :> K[0]) @@ (2 :> K[1]) @@ (3 :> K[2])

\* obf_injection_version<1,...>::consts = { 1, OBF_CONST_A, OBF_CONST_B, OBF_CONST_C }
Version1Consts(K) == (0 :> 1) @@ (1 :> K[0]) @@ (2 :> K[1]) @@ (3 :> K[2])

\* one lane of version 3 (side) or version 5: its budgets, and the request
\* for its injection over its own context laneCtx
LaneOver(bytes, seedInj, cycles_lane, split, laneCtx) ==
    [cycles |-> cycles_lane, cycles_ctx |-> split[0], cycles_inj |-> split[1],
     inj |-> Request("inj", bytes, laneCtx, seedInj,
                     split[1] + laneCtx.context_cycles, NoExclude)]

LaneSplit(bytes, ctx, side, seedCtx, seedInj, cycles_lane, B, split) ==
    LaneOver(bytes, seedInj, cycles_lane, split,
             ObfRecursiveContext(bytes, ctx, seedCtx, split[0], side, B))

Lane(bytes, ctx, side, seedSplit, seedCtx, seedInj, cycles_lane, B) ==
    LaneSplit(bytes, ctx, side, seedCtx, seedInj, cycles_lane, B,
              obf_random_split(seedSplit, cycles_lane, Split2))

LaneBudgets(lane) ==
    [cycles |-> lane.cycles, cycles_ctx |-> lane.cycles_ctx, cycles_inj |-> lane.cycles_inj]

\* obf_injection<T, Context, seed, cycles, InjectionContext>::which
obf_injection(r) ==
    obf_random_obf_from_list(obf_compile_time_prng(r.seed, 1), r.cycles,
                             InjectionDescr(r.bytes, r.ctx), r.exclude_version)

\* a budget from which the own cost is not taken
AvailCyclesUncharged(which, r) == r.cycles

\* what every obf_injection_version<which, T, Context, seed, cycles> has
AvailCycles(which, r) == r.cycles - own_min_cycles(which, r.ctx)
Version(which, r) ==
    [tmpl |-> "inj", which |-> which, bytes |-> r.bytes, seed |-> r.seed,
     cycles |-> r.cycles, ctx |-> r.ctx, availCycles |-> AvailCycles(which, r)]
\* a nested injection that is handed the budget of its parent
RecSameBudget(r, seed, cycles, exclude_version) ==
    << [l |-> "rec", req |-> Request("inj", r.bytes, r.ctx, seed, r.cycles, exclude_version)] >>

\* a nested injection whose budget lacks the context's cost
RecWithoutContextCycles(r, seed, cycles, exclude_version) ==
    << [l |-> "rec", req |-> Request("inj", r.bytes, r.ctx, seed,
                                     cycles - r.ctx.context_cycles, exclude_version)] >>

\* a nested injection that may repeat its parent's version
RecNoExclude(r, seed, cycles, exclude_version) ==
    << [l |-> "rec", req |-> Request("inj", r.bytes, r.ctx, seed, cycles, NoExclude)] >>

\* RecursiveInjection
Rec(r, seed, cycles, exclude_version) ==
    KidOf("rec", Request("inj", r.bytes, r.ctx, seed, cycles, exclude_version))

obf_injection_version0(r) ==
    Version(0, r) @@ [fatal |-> AvailCycles(0, r) < 0 \/ ~r.ctx.p.ok, kids |-> NoKids]

obf_injection_version1(r, B) ==
    Version(1, r) @@
    [fatal |-> AvailCycles(1, r) < 0,
     C    |-> FromNat(obf_random_const(obf_compile_time_prng(r.seed, 2),
                                       Version1Consts(B.K)), r.bytes),
     kids |-> Rec(r, obf_compile_time_prng(r.seed, 1),
                  AvailCycles(1, r) + r.ctx.context_cycles, 1)]

obf_injection_version2(r, splitCycles) ==
    Version(2, r) @@
    [fatal |-> AvailCycles(2, r) < 0 \/ splitCycles[0] + splitCycles[1] > AvailCycles(2, r),
     cycles_f |-> splitCycles[0], cycles_rInj |-> splitCycles[1],
     kids |-> Rec(r, obf_compile_time_prng(r.seed, 2),
                  splitCycles[1] + r.ctx.context_cycles, NoExclude)
              \o KidOf("f", Request("poly", r.bytes \div 2, r.ctx,
                                    obf_compile_time_prng(r.seed, 3), splitCycles[0],
                                    NoExclude))]

obf_injection_version3(r, splitCycles, lo, hi) ==
    Version(3, r) @@
    [fatal |-> \/ AvailCycles(3, r) < 0
               \/ splitCycles[0] + splitCycles[1] + splitCycles[2] > AvailCycles(3, r)
               \/ lo.cycles_ctx + lo.cycles_inj > lo.cycles
               \/ hi.cycles_ctx + hi.cycles_inj > hi.cycles,
     cycles_rInj |-> splitCycles[0],
     lo |-> LaneBudgets(lo), hi |-> LaneBudgets(hi),
     kids |-> Rec(r, obf_compile_time_prng(r.seed, 2),
                  splitCycles[0] + r.ctx.context_cycles, NoExclude)
              \o KidOf("lo", lo.inj) \o KidOf("hi", hi.inj)]

\* the lanes LoInjection (over RecursiveInjection's low half) and HiInjection
Lanes3(r, B, splitCycles) ==
    obf_injection_version3(
        r, splitCycles,
        Lane(r.bytes \div 2, r.ctx, TRUE, obf_compile_time_prng(r.seed, 2),
             obf_compile_time_prng(r.seed, 3), obf_compile_time_prng(r.seed, 4),
             splitCycles[1], B),
        Lane(r.bytes \div 2, r.ctx, TRUE, obf_compile_time_prng(r.seed, 5),
             obf_compile_time_prng(r.seed, 6), obf_compile_time_prng(r.seed, 7),
             splitCycles[2], B))

obf_injection_version4(r, B, C, CINV) ==
    Version(4, r) @@
    [fatal |-> AvailCycles(4, r) < 0 \/ C[1] % 2 # 1 \/ Mul(C, CINV) # FromNat(1, r.bytes),
     C |-> C, CINV |-> CINV,
     \* obf_literal_ctx<T, CINV, ..., prng(seed,3), literal_cycles>::Injection
     kids |-> Rec(r, obf_compile_time_prng(r.seed, 1),
                  AvailCycles(4, r) + r.ctx.context_cycles, 4)
              \o KidOf("lit", Request("inj", r.bytes, LiteralContextOf(r.ctx, B),
                                      obf_compile_time_prng(obf_compile_time_prng(r.seed, 3), 1),
                                      r.ctx.literal_cycles, NoExclude))]

\* CINV = obf_mul_inverse_mod2n(C)
Inverse4(r, B, C) == obf_injection_version4(r, B, C, obf_mul_inverse_mod2n(C))

obf_injection_version5(r, splitCycles, lo, hi) ==
    Version(5, r) @@
    [fatal |-> \/ AvailCycles(5, r) < 0
               \/ splitCycles[0] + splitCycles[1] > AvailCycles(5, r)
               \/ lo.cycles_ctx + lo.cycles_inj > lo.cycles
               \/ hi.cycles_ctx + hi.cycles_inj > hi.cycles,
     lo |-> LaneBudgets(lo), hi |-> LaneBudgets(hi),
     kids |-> KidOf("lo", lo.inj) \o KidOf("hi", hi.inj)]

\* the lanes LoInjection and HiInjection
Lanes5(r, B, splitCycles) ==
    obf_injection_version5(
        r, splitCycles,
        Lane(r.bytes \div 2, r.ctx, FALSE, obf_compile_time_prng(r.seed, 2),
             obf_compile_time_prng(r.seed, 3), obf_compile_time_prng(r.seed, 4),
             splitCycles[0], B),
        Lane(r.bytes \div 2, r.ctx, FALSE, obf_compile_time_prng(r.seed, 5),
             obf_compile_time_prng(r.seed, 6), obf_compile_time_prng(r.seed, 7),
             splitCycles[1], B))

\* no candidate is eligible: the selector's assert stops the compiler
NoVersion(r) ==
    [tmpl |-> "inj", which |-> Fatal, bytes |-> r.bytes, seed |-> r.seed, cycles |-> r.cycles,
     ctx |-> r.ctx, availCycles |-> r.cycles, fatal |-> TRUE, kids |-> NoKids]

\* obf_injection_version<which, T, Context, seed, cycles>
obf_injection_version(which, r, B) ==
    CASE which = Fatal -> NoVersion(r)
      [] which = 0 -> obf_injection_version0(r)
      [] which = 1 -> obf_injection_version1(r, B)
      [] which = 2 ->
           obf_injection_version2(r, obf_random_split(obf_compile_time_prng(r.seed, 1),
                                                      AvailCycles(2, r), Split2))
      [] which = 3 ->
           Lanes3(r, B, obf_random_split(obf_compile_time_prng(r.seed, 1),
                                         AvailCycles(3, r), Split3))
      [] which = 4 ->
           Inverse4(r, B, FromNat(obf_random_const(obf_compile_time_prng(r.seed, 2), B.K),
                                  r.bytes))
      [] which = 5 ->
           Lanes5(r, B, obf_random_split(obf_compile_time_prng(r.seed, 1),
                                         AvailCycles(5, r), Split2))

\* the class a request instantiates
Instance(r, B) ==
    IF r.tmpl = "poly" THEN PolyHelper(r)
    ELSE obf_injection_version(obf_injection(r), r, B)

\* obf_literal<T_, C_, seed, cycles>::Injection and obf_var<T_, seed, cycles>::Injection
obf_literal(bytes, seed, cycles, B) ==
    Request("inj", bytes,
            ObfLiteralContext(bytes, obf_compile_time_prng(seed, 1), cycles, B),
            obf_compile_time_prng(seed, 2), cycles, NoExclude)

obf_var(bytes, seed, cycles, B) ==
    Request("inj", bytes, ObfVarContext(bytes, obf_compile_time_prng(seed, 1), cycles),
            obf_compile_time_prng(seed, 2), cycles, NoExclude)

---------------------------------------------------------------------------
(* Run time.  A value of T or of an injection's return_type is its bytes   *)
(* in memory (a version-5 struct { lo; hi; } is lo's bytes followed by     *)
(* hi's), so the reinterpret_casts of version 3 leave a value as it is.    *)
(* rt is what a call sees of the process: rt.peb2 = obf_peb[2] (1 under a  *)
(* debugger), rt.noad = OBFUSCATE_DEBUG_DISABLE_ANTI_DEBUG is defined.  c  *)
(* holds the static members c of the literal context versions 1 and 4, one *)
(* per instantiated <which, T, seed>.                                      *)

CtxKey(ctx) == <<ctx.which, ctx.bytes, ctx.seed>>
HasStatic(ctx) == ctx.kind = "lit" /\ ctx.which \in {1, 4}
\* a static member c left zero-initialised
StaticInitZero(ctx) == FromNat(0, ctx.bytes)

\* volatile T c = CC (version 1), c = CC0 (version 4)
StaticInit(ctx) == IF ctx.which = 4 THEN FromNat(ctx.p.CC0, ctx.bytes) ELSE ctx.CC

\* a final_injection that adds nothing
FinalInjectionPlain(ctx, x) == x

\* Context::final_injection(x)
final_injection(ctx, x) ==
    IF ctx.kind = "lit" /\ ctx.which \in {1, 3, 4} THEN Add(x, ctx.CC) ELSE x

\* obf_aliased_zero(&x, &yy) for two distinct locals
obf_aliased_zero == 0

\* a sum c + DELTA cut to T before the remainder is taken
NewCWrapped(ctx, cv) ==
    FromNat(((ToNat(cv) + ctx.p.DELTA) % ctx.p.TSize) % ctx.p.DELTAMOD, ctx.bytes)

\* version 4: T newC = (c + DELTA) % DELTAMOD, for the c loaded
NewC(ctx, cv) == FromNat((ToNat(cv) + ctx.p.DELTA) % ctx.p.DELTAMOD, ctx.bytes)
\* version 4: assert(c % MOD == CC), for the c loaded
InvariantHolds(ctx, cv) == ToNat(cv) % ctx.p.MOD = ctx.p.CC
\* a return that subtracts the whole counter
FinalReturnWhole(ctx, y, cv) == Sub(y, cv)

\* version 4: return y - (c % MOD), for the c loaded
FinalReturn(ctx, y, cv) == Sub(y, FromNat(ToNat(cv) % ctx.p.MOD, ctx.bytes))

\* A call in progress: the instance p whose member function f ("inj"
\* injection, "surj" surjection, "poly" operator()) runs, its argument x
\* (and x0 of operator()), the point pc it has reached and a local it keeps.
Frame(p, f, x, x0) == [p |-> p, f |-> f, pc |-> 0, x |-> x, a |-> x0]

\* What one step of the innermost call does: top replaces its frame (nothing
\* when it returns, itself and the callee's frame when it calls), r is the
\* value it returns, c the statics it leaves, ok = no assert failed.
Calls(fr, pc, a, callee, c) ==
    [top |-> << [fr EXCEPT !.pc = pc, !.a = a], callee >>, r |-> None, c |-> c, ok |-> TRUE]
Returns(v, c) == [top |-> <<>>, r |-> v, c |-> c, ok |-> TRUE]
GoesOn(fr, pc, a, c, ok) ==
    [top |-> << [fr EXCEPT !.pc = pc, !.a = a] >>, r |-> None, c |-> c, ok |-> ok]

Kid(fr, l) == Append(fr.p, l)

\* obf_randomized_polynomial_function_helper<...>::operator()(x0, x); r is
\* what the call made last has returned
PolyStep(n, fr, r, c) ==
    CASE n.op = "id"   -> Returns(fr.x, c)
      [] n.op = "plus" -> Returns(Add(fr.x, fr.a), c)
      [] n.op = "mul" /\ fr.pc = 0 ->
           Calls(fr, 1, fr.a, Frame(Kid(fr, "next"), "poly", Mul(fr.x, fr.a), fr.a), c)
      [] n.op = "add" /\ fr.pc = 0 ->
           Calls(fr, 1, fr.a, Frame(Kid(fr, "next"), "poly", Add(fr.x, fr.a), fr.a), c)
      [] OTHER -> Returns(r, c)

\* obf_injection_version<which,...>::injection(x)
InjectionStep(n, fr, r, c) ==
    LET x == fr.x
        Inj(pc, a, l, arg) == Calls(fr, pc, a, Frame(Kid(fr, l), "inj", arg, None), c)
    IN  CASE n.which = 0 -> Returns(final_injection(n.ctx, x), c)
          [] n.which = 1 /\ fr.pc = 0 -> Inj(1, None, "rec", Add(x, n.C))
          [] n.which = 2 /\ fr.pc = 0 ->
               Calls(fr, 1, None, Frame(Kid(fr, "f"), "poly", HiHalf(x), HiHalf(x)), c)
          [] n.which = 2 /\ fr.pc = 1 ->
               Inj(2, None, "rec", Join(HiHalf(x), Add(LoHalf(x), r)))
          [] n.which = 3 /\ fr.pc = 0 -> Inj(1, None, "lo", HiHalf(x))
          [] n.which = 3 /\ fr.pc = 1 -> Inj(2, r, "hi", LoHalf(x))
          [] n.which = 3 /\ fr.pc = 2 -> Inj(3, None, "rec", Join(fr.a, r))
          \* literal(): val(Injection::injection(CINV)), then .value()
          [] n.which = 4 /\ fr.pc = 0 -> Inj(1, None, "lit", n.CINV)
          [] n.which = 4 /\ fr.pc = 1 ->
               Calls(fr, 2, None, Frame(Kid(fr, "lit"), "surj", r, None), c)
          [] n.which = 4 /\ fr.pc = 2 -> Inj(3, None, "rec", Mul(x, r))
          [] n.which = 5 /\ fr.pc = 0 -> Inj(1, None, "lo", LoHalf(x))
          [] n.which = 5 /\ fr.pc = 1 -> Inj(2, r, "hi", HiHalf(x))
          [] n.which = 5 /\ fr.pc = 2 -> Returns(Join(fr.a, r), c)
          [] OTHER -> Returns(r, c)

\* Context::final_surjection(y); version 4 reads and writes c one access at
\* a time
FinalSurjectionStep(ctx, fr, c, rt) ==
    LET y == fr.x
        k == CtxKey(ctx)
    IN  IF ctx.kind # "lit" \/ ctx.which = 0 THEN Returns(y, c)
        ELSE CASE ctx.which = 1 -> Returns(Sub(y, c[k]), c)
               [] ctx.which = 2 -> Returns(Sub(y, FromNat(obf_aliased_zero, ctx.bytes)), c)
               [] ctx.which = 3 ->
                    IF rt.noad THEN Returns(Sub(y, ctx.CC), c)
                    ELSE Returns(Sub(y, Mul(ctx.CC, FromNat(1 + rt.peb2, ctx.bytes))), c)
               [] ctx.which = 4 /\ fr.pc = 0 -> GoesOn(fr, 1, NewC(ctx, c[k]), c, TRUE)
               [] ctx.which = 4 /\ fr.pc = 1 ->
                    GoesOn(fr, 2, None, [c EXCEPT ![k] = fr.a], TRUE)
               [] ctx.which = 4 /\ fr.pc = 2 ->
                    GoesOn(fr, 3, None, c, InvariantHolds(ctx, c[k]))
               [] ctx.which = 4 /\ fr.pc = 3 -> Returns(FinalReturn(ctx, y, c[k]), c)

\* obf_injection_version<which,...>::surjection(y)
SurjectionStep(n, fr, r, c, rt) ==
    LET Surj(pc, a, l, arg) == Calls(fr, pc, a, Frame(Kid(fr, l), "surj", arg, None), c)
    IN  CASE n.which = 0 -> FinalSurjectionStep(n.ctx, fr, c, rt)
          [] n.which \in {1, 2, 3, 4} /\ fr.pc = 0 -> Surj(1, None, "rec", fr.x)
          [] n.which = 1 /\ fr.pc = 1 -> Returns(Sub(r, n.C), c)
          [] n.which = 2 /\ fr.pc = 1 ->
               Calls(fr, 2, r, Frame(Kid(fr, "f"), "poly", LoHalf(r), LoHalf(r)), c)
          [] n.which = 2 /\ fr.pc = 2 ->
               Returns(Join(Sub(HiHalf(fr.a), r), LoHalf(fr.a)), c)
          [] n.which = 3 /\ fr.pc = 1 -> Surj(2, r, "hi", HiHalf(r))
          [] n.which = 3 /\ fr.pc = 2 -> Surj(3, r, "lo", LoHalf(fr.a))
          [] n.which = 3 /\ fr.pc = 3 -> Returns(Join(fr.a, r), c)
          [] n.which = 4 /\ fr.pc = 1 -> Returns(Mul(r, n.C), c)
          [] n.which = 5 /\ fr.pc = 0 -> Surj(1, None, "hi", HiHalf(fr.x))
          [] n.which = 5 /\ fr.pc = 1 -> Surj(2, r, "lo", LoHalf(fr.x))
          [] n.which = 5 /\ fr.pc = 2 -> Returns(Join(r, fr.a), c)

\* one step of the call fr over the instances tr
Exec(tr, fr, r, c, rt) ==
    CASE fr.f = "poly" -> PolyStep(tr[fr.p], fr, r, c)
      [] fr.f = "inj"  -> InjectionStep(tr[fr.p], fr, r, c)
      [] fr.f = "surj" -> SurjectionStep(tr[fr.p], fr, r, c, rt)

---------------------------------------------------------------------------
(* The programs checked.  One build (OBFUSCATE_SEED), one source file; a   *)
(* site declares, on one line, either two literals obf_literal<T, C, seed, *)
(* cycles> that differ in C only (so they share every context) or a        *)
(* variable obf_var<T, seed, cycles> ("a") next to another variable ("b")  *)
(* of another width, seed and budget.                                      *)

\* the header's example seed, 0x0c7dfa61a867b125
OBFUSCATE_SEED == <<37, 177, 103, 168, 97, 250, 125, 12>>
\* __FILE__ = "a.c"
SourceFile == <<97, 46, 99>>

NLines     == 2     \* the objects are declared on lines 1..NLines
MaxBudget  == 22    \* every budget 0..MaxBudget is tried
NDeepLines == 8     \* the lines of the literals with budgets DeepBudgets
MaxSlack   == 3     \* budgets up to MaxSlack above a version's least budget
MaxCalls   == 2     \* operations on constructed objects per run
NThreads   == 2     \* threads

Widths  == {1, 2, 4, 8}
Objects == {"a", "b"}
Threads == 1..NThreads
Main    == CHOOSE t \in Threads : \A u \in Threads : t <= u

\* the values tried for a T of sizeof n: 0, 1, the largest, a mixed pattern
Values(n) == {FromNat(0, n), FromNat(1, n), [k \in 1..n |-> 255],
              [k \in 1..n |-> 187 - 22 * k]}

\* what obf_gen_const may yield (its low bits are version 4's PREMOD)
GenConsts == {0, 7}

\* every small budget, and OBF3 and OBF4 variables
VarBudgets == (0..MaxBudget) \cup {obf_exp_cycles(3), obf_exp_cycles(4)}
\* budgets that afford the literal context version 4
DeepBudgets == {LitCtxDescr[4].min_cycles + d : d \in 0..MaxSlack}
\* budgets of variables that afford injection version 4
Version4Budgets == {own_min_cycles(4, ObfVarContext(1, None, 0)) + d : d \in 0..MaxSlack}

SiteSeed(line) == obf_seed_from_file_line(OBFUSCATE_SEED, OBF_LOCATION(SourceFile, line), 0)

K0 == BuildConsts(OBFUSCATE_SEED)
Build(s) == [K |-> K0, gen |-> s.gen]

Site(kind, bytes, line, cycles, gen) ==
    [kind |-> kind, bytes |-> bytes, line |-> line, cycles |-> cycles, gen |-> gen]

\* variables and literals of every width with the small budgets; variables
\* that afford version 4; uint8_t and uint16_t literals that afford the
\* context version 4
BuildSites ==
    {Site("var", n, l, b, 0) : n \in Widths, l \in 1..NLines,
                               b \in VarBudgets \cup Version4Budgets}
    \cup {Site("lit", n, l, b, 0) : n \in Widths, l \in 1..NLines, b \in 0..MaxBudget}
    \cup {Site("lit", n, l, b, g) : n \in {1, 2}, l \in 1..NDeepLines, b \in DeepBudgets,
                                    g \in GenConsts}

\* the other variable of a "var" site: half as wide (twice for uint8_t),
\* declared on the next line as an OBF2
OtherBytes(s) == IF s.bytes = 1 THEN 2 ELSE s.bytes \div 2
OtherCycles == obf_exp_cycles(2)

\* what the site's declarations make the compiler instantiate first
LiteralRoot(s, seed) ==
    Eager(seed, << [p |-> <<"a">>, req |-> obf_literal(s.bytes, seed, s.cycles, Build(s))] >>)
VarRoots(s, seed, other) ==
    Eager(<<seed, other>>,
          << [p |-> <<"a">>, req |-> obf_var(s.bytes, seed, s.cycles, Build(s))],
             [p |-> <<"b">>, req |-> obf_var(OtherBytes(s), other, OtherCycles, Build(s))] >>)
Roots(s) ==
    IF s.kind = "lit" THEN LiteralRoot(s, SiteSeed(s.line))
    ELSE VarRoots(s, SiteSeed(s.line), SiteSeed(s.line + 1))

\* T(v) for an unsigned v of another width
Convert(v, n) == [k \in 1..n |-> IF k <= Len(v) THEN v[k] ELSE 0]

\* obf_peb[2] is the PEB's BeingDebugged byte; a build may compile the
\* anti-debug code out
NoDebugger == [peb2 |-> 0, noad |-> FALSE]
Envs == {NoDebugger, [peb2 |-> 1, noad |-> FALSE], [peb2 |-> 1, noad |-> TRUE]}

EmptyMap == [x \in {} |-> x]
Idle == [pc |-> "idle"]
NoTask == [kind |-> "none"]
IdleThread == [task |-> NoTask, stack |-> <<>>, r |-> None]

---------------------------------------------------------------------------
(* Compile time: one instantiation per step.                               *)

\* a build starts from the site's declarations; the program will run in
\* one of the processes envs
Start(sites, envs) ==
    /\ site \in sites
    /\ pending = Roots(site)
    /\ tree = EmptyMap
    /\ charged = EmptyMap
    /\ env \in envs
    /\ val = [o \in Objects |-> None]
    /\ shadow = [o \in Objects |-> None]
    /\ statics = EmptyMap
    /\ th = [t \in Threads |-> IdleThread]
    /\ ncalls = 0
    /\ failed = FALSE
    /\ inv = Idle /\ ec = Idle /\ call = Idle

\* a static_assert has failed: the compiler stops
BuildFailed == \E p \in DOMAIN tree : tree[p].fatal
\* the program is built
Built == pending = <<>> /\ ~BuildFailed

\* the budget an instance is charged to: that of the innermost embedded
\* literal it belongs to, else that of its object
BudgetRoot(p) ==
    LET lits == {i \in 1..Len(p) : p[i] = "lit"}
    IN  IF lits = {} THEN SubSeq(p, 1, 1)
        ELSE SubSeq(p, 1, CHOOSE i \in lits : \A j \in lits : j <= i)

\* the cycles an instance charges: a helper its round, a leaf its context,
\* a strategy its own cost by the context's calc_cycles (an embedded
\* literal's whole budget is part of version 4's own injection cost)
Charge(n) ==
    IF n.tmpl = "poly"
    THEN CASE n.op = "id" -> 0 [] n.op = "plus" -> 1 [] n.op = "mul" -> 3 [] n.op = "add" -> 1
    ELSE IF n.which = Fatal THEN 0
    ELSE IF n.which = 0 THEN n.ctx.context_cycles
    ELSE calc_cycles(n.ctx, own_min_injection_cycles(n.which, n.ctx),
                     own_min_surjection_cycles(n.which))

\* the instantiations an instance asks for, at their paths
KidRequests(p, n) == [i \in 1..Len(n.kids) |-> [p |-> Append(p, n.kids[i].l), req |-> n.kids[i].req]]

\* the instance n is made at path p
Made(p, n) ==
    /\ tree' = tree @@ (p :> n)
    /\ pending' = Tail(pending) \o KidRequests(p, n)
    /\ charged' = IF BudgetRoot(p) \in DOMAIN charged
                  THEN [charged EXCEPT ![BudgetRoot(p)] = @ + Charge(n)]
                  ELSE charged @@ (BudgetRoot(p) :> Charge(n))
    /\ statics' = IF n.tmpl = "inj" /\ n.which = 0 /\ HasStatic(n.ctx)
                     /\ CtxKey(n.ctx) \notin DOMAIN statics
                  THEN statics @@ (CtxKey(n.ctx) :> StaticInit(n.ctx))
                  ELSE statics

\* the compiler instantiates the oldest request
Instantiate ==
    /\ pending # <<>> /\ ~BuildFailed
    /\ Made(Head(pending).p, Instance(Head(pending).req, Build(site)))
    /\ UNCHANGED <<site, env, val, shadow, th, ncalls, failed, inv, ec, call>>

InitBuild == Start(BuildSites, {NoDebugger})
NextBuild == Instantiate
SpecBuild == InitBuild /\ [][NextBuild]_vars

---------------------------------------------------------------------------
(* Run time: the operations of obf_literal and obf_var, each call taken    *)
(* step by step by the thread that makes it.                               *)

\* the instance an object's Injection names (the two literals of a site
\* name the same)
Root(o) == IF site.kind = "lit" THEN <<"a">> ELSE <<o>>
BytesOf(o) == tree[Root(o)].bytes

\* what a thread is doing: kind "store" val = Injection::injection(v),
\* "copy" the t.value() of operand o2 whose T(T_(...)) will be stored,
\* "value" a call of value()
Task(kind, o, v) == [kind |-> kind, o |-> o, v |-> v]
Begin(t, task, fr) == th' = [th EXCEPT ![t] = [task |-> task, stack |-> <<fr>>, r |-> None]]
Free(t) == th[t] = IdleThread
Constructed(o) == val[o] # None

\* another value of a T of sizeof n, for assignments
Other(n) == [k \in 1..n |-> 16 * k + 1]

\* constexpr obf_literal() : val(Injection::injection(C))
ConstructLiteral(o, C) ==
    /\ Built /\ site.kind = "lit" /\ Free(Main) /\ ~Constructed(o)
    /\ Begin(Main, Task("store", o, C), Frame(Root(o), "inj", C, None))
    /\ UNCHANGED <<site, pending, tree, charged, env, val, shadow, statics, ncalls, failed,
                   inv, ec, call>>

\* obf_var(T_ t) : val(Injection::injection(T(t)))
ConstructVar(o, v) ==
    /\ Built /\ site.kind = "var" /\ Free(Main) /\ ~Constructed(o)
    /\ Begin(Main, Task("store", o, v), Frame(Root(o), "inj", v, None))
    /\ UNCHANGED <<site, pending, tree, charged, env, val, shadow, statics, ncalls, failed,
                   inv, ec, call>>

\* obf_var& operator=(T_ t)
AssignVar(o, v) ==
    /\ site.kind = "var" /\ Free(Main) /\ Constructed(o) /\ ncalls < MaxCalls
    /\ Begin(Main, Task("store", o, v), Frame(Root(o), "inj", v, None))
    /\ ncalls' = ncalls + 1
    /\ UNCHANGED <<site, pending, tree, charged, env, val, shadow, statics, failed, inv, ec, call>>

\* obf_var(obf_var<T2, seed2, cycles2> t) : val(Injection::injection(T(T_(t.value()))))
ConstructVarFromVar(o, o2) ==
    /\ site.kind = "var" /\ Free(Main) /\ ~Constructed(o) /\ Constructed(o2)
    /\ Begin(Main, Task("copy", o, Convert(shadow[o2], BytesOf(o))),
             Frame(Root(o2), "surj", val[o2], None))
    /\ UNCHANGED <<site, pending, tree, charged, env, val, shadow, statics, ncalls, failed,
                   inv, ec, call>>

\* obf_var& operator=(obf_var<T2, seed2, cycles2> t)
AssignVarFromVar(o, o2) ==
    /\ site.kind = "var" /\ Free(Main) /\ Constructed(o) /\ Constructed(o2) /\ o # o2
    /\ ncalls < MaxCalls
    /\ Begin(Main, Task("copy", o, Convert(shadow[o2], BytesOf(o))),
             Frame(Root(o2), "surj", val[o2], None))
    /\ ncalls' = ncalls + 1
    /\ UNCHANGED <<site, pending, tree, charged, env, val, shadow, statics, failed, inv, ec, call>>

\* T value() const { return Injection::surjection(val); }, called by thread t
Value(t, o) ==
    /\ Free(t) /\ Constructed(o) /\ ncalls < MaxCalls
    /\ Begin(t, Task("value", o, None), Frame(Root(o), "surj", val[o], None))
    /\ ncalls' = ncalls + 1
    /\ UNCHANGED <<site, pending, tree, charged, env, val, shadow, statics, failed, inv, ec, call>>

\* the step e of thread t's innermost call takes effect
Stepped(t, e) ==
    /\ th' = [th EXCEPT ![t].stack = SubSeq(@, 1, Len(@) - 1) \o e.top, ![t].r = e.r]
    /\ statics' = e.c
    /\ failed' = (failed \/ ~e.ok)

\* thread t takes the next step of its innermost call
Step(t) ==
    /\ th[t].stack # <<>>
    /\ Stepped(t, Exec(tree, th[t].stack[Len(th[t].stack)], th[t].r, statics, env))
    /\ UNCHANGED <<site, pending, tree, charged, env, val, shadow, ncalls, inv, ec, call>>

\* a task's outermost call has returned
Returned(t, kind) == th[t].task.kind = kind /\ th[t].stack = <<>>

\* t.value() has returned: its T(T_(...)) goes into the injection
Inject(t) ==
    /\ Returned(t, "copy")
    /\ LET o == th[t].task.o
       IN  Begin(t, Task("store", o, th[t].task.v),
                 Frame(Root(o), "inj", Convert(th[t].r, BytesOf(o)), None))
    /\ UNCHANGED <<site, pending, tree, charged, env, val, shadow, statics, ncalls, failed,
                   inv, ec, call>>

\* the injection has returned: the member val is written
Store(t) ==
    /\ Returned(t, "store")
    /\ val' = [val EXCEPT ![th[t].task.o] = th[t].r]
    /\ shadow' = [shadow EXCEPT ![th[t].task.o] = th[t].task.v]
    /\ th' = [th EXCEPT ![t] = IdleThread]
    /\ UNCHANGED <<site, pending, tree, charged, env, statics, ncalls, failed, inv, ec, call>>

\* value() returns to its caller
Return(t) ==
    /\ Returned(t, "value")
    /\ th' = [th EXCEPT ![t] = IdleThread]
    /\ UNCHANGED <<site, pending, tree, charged, env, val, shadow, statics, ncalls, failed,
                   inv, ec, call>>

---------------------------------------------------------------------------
(* Single-threaded programs: literals and variables constructed, assigned, *)
(* copied and read.                                                        *)

\* the programs run: literals of every width on two lines and variables of
\* every width on the first, with some small budgets; a uint8_t variable that
\* just affords version 4 (its embedded literals have contexts of their own);
\* an OBF4 uint16_t variable
RunLines == {1, 2}
RunBudgets == {b \in 0..MaxBudget : b % 4 = 1}
RunSites ==
    {Site("lit", n, l, b, 0) : n \in Widths, l \in RunLines, b \in RunBudgets}
    \cup {Site("var", n, 1, b, 0) : n \in Widths, b \in RunBudgets}
    \cup {Site("var", 1, 2, own_min_cycles(4, ObfVarContext(1, None, 0)), 0)}
    \cup {Site("var", 2, 1, obf_exp_cycles(4), 0)}

\* the uint8_t programs of line 2 (their literal contexts read the PEB) are
\* also run under a debugger, with the anti-debug code and without
DebuggedSites == {s \in RunSites : s.bytes = 1 /\ s.line = 2}

Init == Start(RunSites, {NoDebugger}) \/ Start(DebuggedSites, Envs \ {NoDebugger})

Next ==
    \/ Instantiate
    \/ \E C \in Values(site.bytes) : ConstructLiteral("a", C)
    \/ Constructed("a") /\ ConstructLiteral("b", Other(site.bytes))
    \/ \E v \in Values(site.bytes) : ConstructVar("a", v)
    \/ \E o \in Objects : AssignVar(o, Other(BytesOf(o)))
    \/ ConstructVarFromVar("b", "a")
    \/ \E o, o2 \in Objects : AssignVarFromVar(o, o2)
    \/ \E o \in Objects : Value(Main, o)
    \/ Step(Main)
    \/ Inject(Main)
    \/ Store(Main)
    \/ Return(Main)

Spec == Init /\ [][Next]_vars

---------------------------------------------------------------------------
(* The selection and splitting functions called on drawn arguments.        *)

NSeeds  == 3     \* seeds taken from the generator
MaxDraw == 6     \* seeds whose upper half is 0..MaxDraw

\* a C++ array from its elements
Arr(q) == [i \in 0..(Len(q) - 1) |-> q[i + 1]]

PickSeeds ==
    {obf_compile_time_prng(OBFUSCATE_SEED, k) : k \in 1..NSeeds}
    \cup {Join(FromNat(0, 4), FromNat(r, 4)) : r \in 0..MaxDraw}
    \cup {[k \in 1..8 |-> 255]}

\* a context of each kind, the literal ones by their version
PickContexts(n) ==
    {ObfZeroLiteralContext(n), ObfVarContext(n, OBFUSCATE_SEED, 0)}
    \cup {ObfLiteralContextOf(w, n, OBFUSCATE_SEED, LitCtxDescr[w].min_cycles, Build([gen |-> 0]))
          : w \in 0..3}

\* the descriptor lists of obf_injection and of ObfLiteralContext
PickDescrs ==
    UNION {{InjectionDescr(n, c) : c \in PickContexts(n)} : n \in {1, 4}} \cup {LitCtxDescr}
PickExcludes == {NoExclude, 0, 1, 4}

WeightLists ==
    {Arr(<<100, 100>>), Arr(<<1, 1, 1>>), Arr(<<2, 0, 3>>), Arr(<<0, 0, 1>>), Arr(<<0, 4, 0>>),
     Arr(<<0>>), Arr(<<0, 100, 0, 0, 100, 0>>)}

\* the split lists of the versions 2, 3 and 5, and lists with floors
SplitLists ==
    {Split2, Split3,
     Arr(<<ObfDescriptor(TRUE, 5, 100), ObfDescriptor(TRUE, 5, 100)>>),
     Arr(<<ObfDescriptor(TRUE, 2, 3), ObfDescriptor(TRUE, 0, 1), ObfDescriptor(TRUE, 1, 7)>>)}
SplitBudgets == (0..MaxBudget) \cup {obf_exp_cycles(e) : e \in 3..6}

PickCall(seed, cycles, descr, exclude_version) ==
    [fn |-> "pick", seed |-> seed, cycles |-> cycles, list |-> descr,
     exclude_version |-> exclude_version, done |-> FALSE, ret |-> 0]
DrawCall(seed, weights) ==
    [fn |-> "draw", seed |-> seed, cycles |-> 0, list |-> weights,
     exclude_version |-> NoExclude, done |-> FALSE, ret |-> 0]
SplitCall(seed, cycles, elements) ==
    [fn |-> "split", seed |-> seed, cycles |-> cycles, list |-> elements,
     exclude_version |-> NoExclude, done |-> FALSE, ret |-> 0]

\* no declaration is compiled
NoProgram ==
    /\ site = Site("none", 1, 1, 0, 0)
    /\ pending = <<>> /\ tree = EmptyMap /\ charged = EmptyMap
    /\ env = NoDebugger
    /\ val = [o \in Objects |-> None] /\ shadow = [o \in Objects |-> None]
    /\ statics = EmptyMap
    /\ th = [t \in Threads |-> IdleThread]
    /\ ncalls = 0 /\ failed = FALSE

InitPick ==
    /\ NoProgram /\ inv = Idle /\ ec = Idle
    /\ call \in {PickCall(s, b, d, x) : s \in PickSeeds, b \in 0..MaxBudget, d \in PickDescrs,
                                        x \in PickExcludes}
          \cup {DrawCall(s, w) : s \in PickSeeds, w \in WeightLists}
          \cup {SplitCall(s, b, e) : s \in PickSeeds, b \in SplitBudgets, e \in SplitLists}

Returning(fn, ret) ==
    /\ call.fn = fn /\ ~call.done
    /\ call' = [call EXCEPT !.done = TRUE, !.ret = ret]
    /\ UNCHANGED <<site, pending, tree, charged, env, val, shadow, statics, th, ncalls, failed,
                   inv, ec>>

Pick == Returning("pick", obf_random_obf_from_list(call.seed, call.cycles, call.list,
                                                   call.exclude_version))
Draw == Returning("draw", obf_random_from_list(call.seed, call.list))
Split == Returning("split", obf_random_split(call.seed, call.cycles, call.list))

NextPick == Pick \/ Draw \/ Split
SpecPick == InitPick /\ [][NextPick]_vars

---------------------------------------------------------------------------
(* Properties of the selection and splitting functions (SpecPick).         *)

PickReturned == call.fn = "pick" /\ call.done
DrawReturned == call.fn = "draw" /\ call.done
SplitReturned == call.fn = "split" /\ call.done

\* candidate i of the call is not excluded and the budget affords it
Eligible(i) == i # call.exclude_version /\ call.cycles >= call.list[i].min_cycles
EligibleRecursive ==
    {i \in DOMAIN call.list : Eligible(i) /\ call.list[i].is_recursive /\ call.list[i].weight > 0}

\* C15: the index obf_random_obf_from_list returns is of a descriptor whose
\* min_cycles the budget affords, is not exclude_version, and has a weight
\* greater than 0.
C15_Eligibility ==
    (PickReturned /\ call.ret # Fatal) =>
        /\ call.ret \in DOMAIN call.list
        /\ call.list[call.ret].min_cycles <= call.cycles
        /\ call.ret # call.exclude_version
        /\ call.list[call.ret].weight > 0

\* an index is returned although the list holds an excluded candidate, one
\* the budget cannot afford and an affordable one of weight 0
C15_Witness ==
    /\ PickReturned /\ call.ret # Fatal
    /\ call.exclude_version \in DOMAIN call.list
    /\ \E i \in DOMAIN call.list : call.list[i].min_cycles > call.cycles
    /\ \E i \in DOMAIN call.list : Eligible(i) /\ call.list[i].weight = 0

\* C16: when a recursive descriptor of positive weight is eligible, a
\* recursive one is returned; a non-recursive one is returned only when no
\* recursive one is eligible.
C16_PartitionRule ==
    PickReturned =>
        IF EligibleRecursive # {} THEN call.ret \in EligibleRecursive
        ELSE call.ret = Fatal \/ ~call.list[call.ret].is_recursive

\* a recursive index is returned while the draw taken over all candidates
\* would have fallen on the first, non-recursive one
C16_Witness ==
    /\ PickReturned /\ EligibleRecursive # {}
    /\ Eligible(0) /\ ~call.list[0].is_recursive /\ call.list[0].weight > 0
    /\ IsZero(HiHalf(call.seed))
    /\ call.ret # Fatal /\ call.list[call.ret].is_recursive

\* the sum of the weights before index i
Before(i) == SumUpTo(call.list, i - 1)
TotalWeight == SumArr(call.list)
RefWeight == obf_weak_random(call.seed, TotalWeight)
Brackets(i) == Before(i) <= RefWeight /\ RefWeight < Before(i) + call.list[i]

\* C18: with total weight W > 0, obf_random_from_list draws
\* r = (seed >> 32) mod W, 0 <= r < W, and returns the one index i with
\* sum(weights[0..i-1]) <= r < sum(weights[0..i]); it never reaches its
\* trailing assert(false).
C18_WeightedDraw ==
    (DrawReturned /\ TotalWeight > 0) =>
        /\ RefWeight \in 0..(TotalWeight - 1)
        /\ call.seed[8] < 128 => RefWeight = ToNat(HiHalf(call.seed)) % TotalWeight
        /\ call.ret # Fatal
        /\ call.ret \in DOMAIN call.list
        /\ \A i \in DOMAIN call.list : Brackets(i) <=> i = call.ret

\* a draw that passes over a weight of 0 and over a positive one
C18_Witness ==
    /\ DrawReturned /\ TotalWeight > 0 /\ call.ret \in DOMAIN call.list
    /\ \E i, j \in 0..(call.ret - 1) : call.list[i] = 0 /\ call.list[j] > 0
    /\ RefWeight = Before(call.ret)

\* cycles less the floors of the elements
Leftovers == call.cycles - SumArr([i \in DOMAIN call.list |-> call.list[i].min_cycles])

\* C19: when the leftover (the budget less the sum of the floors) is not
\* negative, every value obf_random_split returns is >= 0 and their sum is
\* at most the leftover.
C19_SplitNeverOverGrants ==
    (SplitReturned /\ Leftovers >= 0) =>
        /\ \A i \in DOMAIN call.list : call.ret[i] >= 0
        /\ SumArr(call.ret) <= Leftovers

\* a split whose truncations leave part of a positive leftover ungranted
C19_Witness ==
    /\ SplitReturned /\ Leftovers > 0
    /\ \A i \in DOMAIN call.list : call.ret[i] > 0
    /\ SumArr(call.ret) < Leftovers

---------------------------------------------------------------------------
(* Properties of the constructed trees (SpecBuild).                        *)

Nodes == DOMAIN tree
Injections == {p \in Nodes : tree[p].tmpl = "inj"}
Helpers == {p \in Nodes : tree[p].tmpl = "poly"}

\* the sum of the budgets of the first k instantiations an instance asks
\* for, the embedded literal counted or not
RECURSIVE KidsBudget(_, _, _)
KidsBudget(kids, k, literal) ==
    IF k = 0 THEN 0
    ELSE KidsBudget(kids, k - 1, literal)
         + (IF kids[k].l = "lit" /\ ~literal THEN 0 ELSE kids[k].req.cycles)

HasKid(n, l) == \E i \in 1..Len(n.kids) : n.kids[i].l = l
MinCycles(n) == VersionDescr(n.which, n.bytes, n.ctx).min_cycles

\* C12: no static_assert fails in any tree: at every node the selectors
\* (of the injection version and of the literal context version) find an
\* eligible candidate, availCycles = cycles - own_min_cycles is >= 0, and
\* every obf_random_split is called with leftovers >= 0.
C12_NoBuildFatal ==
    \A p \in Nodes :
        /\ ~tree[p].fatal
        /\ tree[p].cycles >= 0
        /\ tree[p].ctx.which # Fatal
        /\ p \in Injections =>
              /\ tree[p].which # Fatal
              /\ tree[p].availCycles >= 0
              /\ tree[p].which \in {3, 5} => tree[p].lo.cycles >= 0 /\ tree[p].hi.cycles >= 0

\* a finished tree with an instance that has no cycle to spare and a
\* version 3 or 5 whose lane is split with nothing left over
C12_Witness ==
    /\ Built
    /\ \E p \in Injections : tree[p].which # 0 /\ tree[p].availCycles = 0
    /\ \E p \in Injections : tree[p].which \in {3, 5} /\ tree[p].lo.cycles = 0

\* C5: the cycles charged in a tree (each version's own cost by the
\* context's calc_cycles, each applied context's cost, each embedded
\* literal's budget, each round of a polynomial function) add up to no more
\* than the root budget; neither do those charged inside an embedded
\* literal exceed the literal's budget.
C5_TotalCost ==
    \A b \in DOMAIN charged : b \in Nodes /\ charged[b] <= tree[b].cycles

\* a finished tree of a variable that spends all but three cycles at most
\* of its budget, with a version 4 whose embedded literal spends cycles of
\* its own budget
C5_Witness ==
    /\ Built
    /\ charged[<<"a">>] >= site.cycles - 3
    /\ \E p \in Injections :
          /\ tree[p].which = 4 /\ tree[p].ctx.literal_cycles > 0 /\ p[1] = "a"
          /\ charged[Append(p, "lit")] > 0

\* C6 as claimed: at every level the descriptor's min_cycles plus the sum
\* of the budgets granted to the children is at most the level's budget.
C6_Original ==
    \A p \in Injections :
        tree[p].which # Fatal =>
            MinCycles(tree[p]) + KidsBudget(tree[p].kids, Len(tree[p].kids), TRUE)
                <= tree[p].cycles

\* C6 amended: min_cycles contains the context's context_cycles, which a
\* version with a nested injection hands on to it, and version 4's own cost
\* contains the budget of its embedded literal; so min_cycles plus the
\* budgets of the children other than the embedded literal is at most the
\* budget plus context_cycles where there is a nested injection, and at
\* most the budget elsewhere; a polynomial helper's round plus its
\* successor's budget is at most its budget.
C6_BudgetConservation ==
    /\ \A p \in Injections :
          tree[p].which # Fatal =>
              MinCycles(tree[p]) + KidsBudget(tree[p].kids, Len(tree[p].kids), FALSE)
                  <= tree[p].cycles
                     + (IF HasKid(tree[p], "rec") THEN tree[p].ctx.context_cycles ELSE 0)
    /\ \A p \in Helpers :
          Charge(tree[p]) + KidsBudget(tree[p].kids, Len(tree[p].kids), TRUE) <= tree[p].cycles

\* a finished tree with a version 4 whose embedded literal has a budget,
\* and in it a nested injection under a context that costs cycles
C6_Witness ==
    /\ Built
    /\ \E p \in Injections : HasKid(tree[p], "lit") /\ tree[p].ctx.literal_cycles > 0
    /\ \E p \in Injections : HasKid(tree[p], "rec") /\ tree[p].ctx.context_cycles > 0

\* C7: along every edge (nested injection, lane, embedded literal,
\* polynomial helper) the child's budget is less than its parent's, so no
\* instance lies deeper than the root budget (and the construction ends).
C7_BudgetDecreases ==
    /\ \A p \in Nodes : \A i \in 1..Len(tree[p].kids) :
          tree[p].kids[i].req.cycles < tree[p].cycles
    /\ \A p \in Nodes : Len(p) - 1 <= tree[SubSeq(p, 1, 1)].cycles

\* a finished tree with a polynomial helper four levels down and an edge
\* along which the budget falls by one
C7_Witness ==
    /\ Built
    /\ \E p \in Helpers : Len(p) >= 5
    /\ \E p \in Nodes : \E i \in 1..Len(tree[p].kids) :
          tree[p].kids[i].req.cycles = tree[p].cycles - 1

\* C17 as claimed: under every context Identity's min_cycles is 0.
C17_Original ==
    \A p \in Injections : VersionDescr(0, tree[p].bytes, tree[p].ctx).min_cycles = 0

\* C17 amended: Identity's min_cycles is its context's context_cycles (not
\* 0 under a literal context that costs cycles); it is non-recursive with
\* weight > 0, is never the excluded version, and every budget handed to an
\* injection is at least that context_cycles: Identity is eligible at every
\* node of every tree.
C17_IdentityEligible ==
    /\ \A p \in Injections :
          /\ VersionDescr(0, tree[p].bytes, tree[p].ctx).min_cycles = tree[p].ctx.context_cycles
          /\ ~VersionDescr(0, tree[p].bytes, tree[p].ctx).is_recursive
          /\ VersionDescr(0, tree[p].bytes, tree[p].ctx).weight > 0
          /\ tree[p].cycles >= tree[p].ctx.context_cycles
    /\ \A i \in 1..Len(pending) :
          pending[i].req.tmpl = "inj" =>
              /\ pending[i].req.exclude_version # 0
              /\ pending[i].req.cycles >= pending[i].req.ctx.context_cycles

\* Identity is chosen under a literal context with just the context's
\* cycles for a budget
C17_Witness ==
    \E p \in Injections :
        /\ tree[p].which = 0 /\ tree[p].ctx.context_cycles > 0
        /\ tree[p].cycles = tree[p].ctx.context_cycles

---------------------------------------------------------------------------
(* obf_exp_cycles run step by step (SpecExp).                              *)

MinLevel == 3     \* the levels -MinLevel..MaxLevel are tried
MaxLevel == 20

InitExp ==
    /\ NoProgram /\ inv = Idle /\ call = Idle
    /\ ec \in {[pc |-> "call", level |-> e] : e \in (0 - MinLevel)..MaxLevel}

\* the function is entered and runs to its loop (or returns 0)
ExpEnter ==
    /\ ec.pc = "call"
    /\ ec' = [pc |-> "body", level |-> ec.level, s |-> ExpStart(ec.level)]
    /\ UNCHANGED <<site, pending, tree, charged, env, val, shadow, statics, th, ncalls, failed,
                   inv, call>>

\* the loop condition is evaluated, and the body or the return follows
ExpIterate ==
    /\ ec.pc = "body" /\ ec.s.pc = "loop"
    /\ ec' = [ec EXCEPT !.s = ExpLoopStep(ec.s)]
    /\ UNCHANGED <<site, pending, tree, charged, env, val, shadow, statics, th, ncalls, failed,
                   inv, call>>

NextExp == ExpEnter \/ ExpIterate
SpecExp == InitExp /\ [][NextExp]_vars

ExpReturned == ec.pc = "body" /\ ec.s.pc = "done"

RECURSIVE Pow10(_)
Pow10(n) == IF n = 0 THEN 1 ELSE 10 * Pow10(n - 1)
\* the largest level whose value an int32_t holds: 10^9
MaxInt32Level == 18

\* C9: obf_exp_cycles(level) is 0 for level < 0 and otherwise
\* 10^(level div 2), times 3 when level is odd: 1, 3, 10, 30, 100, 300,
\* 1000 for the levels 0..6; up to the largest level whose value fits an
\* int32_t it is computed without overflow and exceeds the value of the
\* level before.
C9_ExpCycles ==
    ExpReturned =>
        /\ ec.level < 0 => ec.s.ret = 0
        /\ ec.level \in 0..MaxInt32Level =>
              /\ ec.s.ret = Pow10(ec.level \div 2) * (IF ec.level % 2 = 1 THEN 3 ELSE 1)
              /\ ~ec.s.ub
              /\ ec.s.ret > obf_exp_cycles(ec.level - 1)
        /\ ec.level \in 0..6 => ec.s.ret = <<1, 3, 10, 30, 100, 300, 1000>>[ec.level + 1]

\* the largest odd level in range has returned 300000000
C9_Witness == ExpReturned /\ ec.level = MaxInt32Level - 1 /\ ec.s.ret = 300000000

---------------------------------------------------------------------------
(* obf_mul_inverse_mod2n run step by step (SpecInv).                       *)

MaxOdd == 40     \* the odd numbers up to 2 * MaxOdd + 1 are inverted

\* the odd numbers of n bytes tried: the small ones (the constants
\* OBF_CONST_x are among them), the largest ones, mixed patterns
OddNumbers(n) ==
    {FromNat(2 * k + 1, n) : k \in 0..MaxOdd}
    \cup {Sub(FromNat(0, n), FromNat(2 * k + 1, n)) : k \in 0..3}
    \cup {[i \in 1..n |-> 255 - 30 * i], [i \in 1..n |-> 16 * i + 1]}

InitInv ==
    /\ NoProgram /\ ec = Idle /\ call = Idle
    /\ inv \in UNION {{[pc |-> "zero", num |-> num, n |-> 0] : num \in OddNumbers(w)} : w \in Widths}

\* lines 634-656: the early return, or the zero step
InvZero ==
    /\ inv.pc = "zero"
    /\ inv' = IF inv.num = Sub(FromNat(0, Len(inv.num)), FromNat(1, Len(inv.num)))
              THEN [pc |-> "done", num |-> inv.num, n |-> 0, ret |-> inv.num, asserted |-> FALSE]
              ELSE [pc |-> "loop", num |-> inv.num, n |-> 0, s |-> InvZeroStep(inv.num)]
    /\ UNCHANGED <<site, pending, tree, charged, env, val, shadow, statics, th, ncalls, failed,
                   ec, call>>

\* lines 658-671: one iteration of the while loop
InvIterate ==
    /\ inv.pc = "loop" /\ ~IsZero(inv.s.num)
    /\ inv' = [inv EXCEPT !.s = InvLoopStep(inv.s), !.n = @ + 1]
    /\ UNCHANGED <<site, pending, tree, charged, env, val, shadow, statics, th, ncalls, failed,
                   ec, call>>

\* lines 672-673: the loop is left, the assertion evaluated, lasty returned
InvReturn ==
    /\ inv.pc = "loop" /\ IsZero(inv.s.num)
    /\ inv' = [pc |-> "done", num |-> inv.num, n |-> inv.n, ret |-> inv.s.lasty,
               asserted |-> TRUE]
    /\ failed' = (failed \/ Mul(inv.s.num0, inv.s.lasty) # FromNat(1, Len(inv.num)))
    /\ UNCHANGED <<site, pending, tree, charged, env, val, shadow, statics, th, ncalls, ec, call>>

NextInv == InvZero \/ InvIterate \/ InvReturn
SpecInv == InitInv /\ [][NextInv]_vars

\* C10: for an odd num of any width obf_mul_inverse_mod2n returns inv with
\* num * inv == 1 modulo 2^W and its final assertion does not fail; in the
\* loop the remainder num stays below mod, which it replaces, so the loop
\* ends (within 2 * W iterations).
C10_MulInverse ==
    /\ ~failed
    /\ inv.pc = "done" => Mul(inv.num, inv.ret) = FromNat(1, Len(inv.num))
    /\ inv.pc = "loop" => Less(inv.s.num, inv.s.mod) /\ inv.n <= 16 * Len(inv.num)

\* a 64-bit number other than 1 and -1 is inverted in more than two
\* iterations and the assertion has been evaluated
C10_Witness ==
    /\ inv.pc = "done" /\ inv.asserted /\ Len(inv.num) = 8 /\ inv.n > 2
    /\ inv.ret # inv.num

---------------------------------------------------------------------------
(* Properties of the programs run.                                         *)

\* the object thread t's task works on, and the last value given to it
ValueReturned(t) == Returned(t, "value")
CopyRead(t) == Returned(t, "copy")
NoDebuggerSeen == env.peb2 = 0 \/ env.noad

\* C1: round trip.  With no debugger present, in every tree built (literal
\* or variable context, every width, every budget tried) surjection
\* returns the x that injection was given: every value() returns what was
\* last stored into the object, every t.value() read by a copy returns the
\* source's, and no assert fails on the way.
C1_RoundTrip ==
    env = NoDebugger =>
        /\ ~failed
        /\ \A t \in Threads :
            /\ ValueReturned(t) => th[t].r = shadow[th[t].task.o]
            /\ CopyRead(t) => Convert(th[t].r, BytesOf(th[t].task.o)) = th[t].task.v

\* a uint64_t whose bytes all differ has gone through a tree of at least
\* three instances and come back
C1_Witness ==
    /\ env = NoDebugger
    /\ ValueReturned(Main)
    /\ site.bytes = 8
    /\ Cardinality(DOMAIN tree) >= 3
    /\ tree[Root(th[Main].task.o)].which # 0
    /\ val[th[Main].task.o] # shadow[th[Main].task.o]
    /\ th[Main].r = Other(8)

\* value() of a literal has returned its C
LiteralReturnsC ==
    \A t \in Threads : ValueReturned(t) => th[t].r = shadow[th[t].task.o] /\ ~failed

VarReturnsLast ==
    \A t \in Threads : ValueReturned(t) => th[t].r = shadow[th[t].task.o] /\ ~failed

\* C3 as stated: value() returns the most recently assigned logical value,
\* whatever the process (violated: under a debugger the literal inside a
\* version-4 injection, under a literal context of version 3, comes back
\* changed, and so does the variable's value)
C3_Original == site.kind = "var" => VarReturnsLast

\* C3: in a process where no debugger is seen, after any sequence of
\* constructions and assignments (from a plain T or from another obf_var of
\* another width, seed and budget) value() returns the most recently
\* assigned logical value, and value() does not change the stored
\* representation.
C3_VarValue ==
    /\ [](site.kind = "var" /\ NoDebuggerSeen => VarReturnsLast)
    /\ [][\A t \in Threads : th[t].task.kind = "value" => val' = val]_vars

\* a variable assigned from a variable of another width, then read
C3_Witness ==
    /\ site.kind = "var" /\ ValueReturned(Main) /\ th[Main].task.o = "b"
    /\ BytesOf("a") # BytesOf("b")
    /\ tree[<<"b">>].which # 0
    /\ shadow["a"] = Other(BytesOf("a"))
    /\ shadow["b"] = Convert(Other(BytesOf("a")), BytesOf("b"))
    /\ th[Main].r = shadow["b"]

\* obf_var_dbg<T>: val as the constructors and the assignments leave it,
\* and value()
obf_var_dbg_value(o) == shadow[o]

\* every value() of the obfuscated variables returns what the plain
\* holders driven alike return, those called by the copies included
SameAsPlainHolder ==
    \A t \in Threads :
        /\ ValueReturned(t) => th[t].r = obf_var_dbg_value(th[t].task.o)
        /\ CopyRead(t) => Convert(th[t].r, BytesOf(th[t].task.o)) = th[t].task.v

\* C11 as stated: obf_var and obf_var_dbg, driven alike, return the same
\* from every value(), whatever the process (violated under a debugger, as
\* C3 is)
C11_Original == site.kind = "var" => SameAsPlainHolder

\* C11: pass-through equivalence.  In a process where no debugger is seen,
\* obf_var and obf_var_dbg driven by the same constructions, assignments
\* and calls of value() on the same integer types return the same value
\* from every value().
C11_PassThrough == site.kind = "var" /\ NoDebuggerSeen => SameAsPlainHolder

\* the value() inside an assignment from another variable has returned
\* what the plain holder holds, out of a representation that differs from it
C11_Witness ==
    /\ site.kind = "var" /\ CopyRead(Main) /\ NoDebuggerSeen
    /\ th[Main].r = obf_var_dbg_value("a")
    /\ val["a"] # obf_var_dbg_value("a")
    /\ ncalls > 0

---------------------------------------------------------------------------
(* Threads (OBF_STRICT_MT: version 4's c is a std::atomic<T>, every access *)
(* to it one step).  Two literals that share their contexts are            *)
(* constructed by the main thread and read by every thread.                *)

\* the uint8_t and uint16_t literals whose context is version 4
ContextOf(s) == LiteralRoot(s, SiteSeed(s.line))[1].req.ctx
MTSites ==
    {s \in {Site("lit", n, l, LitCtxDescr[4].min_cycles, g) :
                n \in {1, 2}, l \in 1..NDeepLines, g \in GenConsts} :
        ContextOf(s).which = 4}

InitMT == Start(MTSites, {NoDebugger})

NextMT ==
    \/ Instantiate
    \/ \E C \in Values(site.bytes) : ConstructLiteral("a", C)
    \/ Constructed("a") /\ ConstructLiteral("b", Other(site.bytes))
    \/ \E t \in Threads, o \in Objects : Value(t, o)
    \/ \E t \in Threads : Step(t)
    \/ Store(Main)
    \/ \E t \in Threads : Return(t)

SpecMT == InitMT /\ [][NextMT]_vars

\* the rolling counter the literals of the site share, and its context
Counter == statics[CtxKey(tree[<<"a">>].ctx)]
Rolling == tree[<<"a">>].ctx.p
\* thread t is inside final_surjection, at the point pc
Decoding(t, pc) ==
    /\ th[t].task.kind = "value" /\ th[t].stack # <<>>
    /\ th[t].stack[Len(th[t].stack)].pc = pc
    /\ tree[th[t].stack[Len(th[t].stack)].p].which = 0

\* C4: with the rolling counter a std::atomic, when two or more threads
\* decode concurrently literals that share one context instance, every call
\* returns its literal's value under every interleaving of the counter's
\* loads and stores, and no assert fails.
C4_ConcurrentDecode ==
    /\ ~failed
    /\ \A t \in Threads : ValueReturned(t) => th[t].r = shadow[th[t].task.o]

\* one thread has returned its literal's value after loading the counter
\* that another thread, still decoding, had stored meanwhile
C4_Witness ==
    \E t, u \in Threads :
        /\ t # u
        /\ ValueReturned(t) /\ th[t].r = shadow[th[t].task.o]
        /\ Decoding(u, 2)
        /\ th[t].task.o # th[u].task.o
        /\ Counter # StaticInit(tree[<<"a">>].ctx)
        /\ th[t].r # Sub(val[th[t].task.o], StaticInit(tree[<<"a">>].ctx))

\* no thread is inside a call
Quiescent == \A t \in Threads : th[t].stack = <<>>

\* C14: the counter is advanced by an atomic read-modify-write, so that
\* after N completed decodes by any threads it is (CC0 + N * DELTA) mod
\* DELTAMOD.  (The code loads and stores separately: two decodes that load
\* the same c store the same c + DELTA, and one advance is lost.)
C14_NoLostAdvance ==
    Built /\ Quiescent /\ Constructed("a") =>
        ToNat(Counter) = (Rolling.CC0 + ncalls * Rolling.DELTA) % Rolling.DELTAMOD

---------------------------------------------------------------------------
(* The rolling counter of the literal context version 4, decode after      *)
(* decode, for the parameter sets of uint8_t and uint16_t.                 *)

MaxGen     == 15    \* obf_gen_const yields 0..MaxGen (and T(-1))
MaxDecodes == 120   \* decodes are counted up to MaxDecodes

\* a seed whose MUL1 is 1 and whose MUL2 is MAXMUL2 for MOD = 15 (uint8_t)
\* and for MOD = 255 (uint16_t): DELTAMOD = T(-1), and c + DELTA goes
\* beyond T(-1)
FullRangeSeed == <<188, 150, 160, 48, 219, 8, 219, 214>>

RollSeeds == PickSeeds \cup {FullRangeSeed}
RollGens == (0..MaxGen) \cup {Byte - 1}
RollContexts ==
    {c \in {ObfLiteralContextOf(4, n, s, LitCtxDescr[4].min_cycles, Build([gen |-> g])) :
                n \in {1, 2}, s \in RollSeeds, g \in RollGens} : c.p.ok}

\* a literal C under the context ctx, as final_injection leaves it; c is
\* the context's static member, n the decodes made, sum the last c + DELTA
RollCall(ctx, C) ==
    [fn |-> "roll", ctx |-> ctx, y |-> final_injection(ctx, C), c |-> StaticInit(ctx), n |-> 0,
     sum |-> 0, ok |-> TRUE, ret |-> None]

InitRoll ==
    /\ NoProgram /\ inv = Idle /\ ec = Idle
    /\ call \in {RollCall(ctx, Other(ctx.bytes)) : ctx \in RollContexts}

\* final_surjection(y), by one thread
Decode ==
    /\ call.fn = "roll"
    /\ call' = [call EXCEPT !.c = NewC(call.ctx, call.c),
                            !.sum = ToNat(call.c) + call.ctx.p.DELTA,
                            !.ok = @ /\ InvariantHolds(call.ctx, NewC(call.ctx, call.c)),
                            !.ret = FinalReturn(call.ctx, call.y, NewC(call.ctx, call.c)),
                            !.n = IF @ < MaxDecodes THEN @ + 1 ELSE @]
    /\ UNCHANGED <<site, pending, tree, charged, env, val, shadow, statics, th, ncalls, failed,
                   inv, ec>>

NextRoll == Decode
SpecRoll == InitRoll /\ [][NextRoll]_vars

---------------------------------------------------------------------------
(* More properties of the trees built (SpecBuild).                         *)

\* the InjectionContext::exclude_version an injection was instantiated with
Parent(p) == SubSeq(p, 1, Len(p) - 1)
Excluded(p) ==
    IF Len(p) > 1 /\ p[Len(p)] = "rec" /\ tree[Parent(p)].which \in {1, 4}
    THEN tree[Parent(p)].which ELSE NoExclude
\* the injections over a uint8_t
Narrow == {p \in Injections : tree[p].bytes = 1 /\ tree[p].which # Fatal}
Affords(p, w) ==
    w # Excluded(p) /\ tree[p].cycles >= VersionDescr(w, tree[p].bytes, tree[p].ctx).min_cycles

\* C21 as stated: for an 8-bit T the only version selected is Identity
\* (violated: versions 1 and 4 keep weight 100 at every width).
C21_Original == \A p \in Narrow : tree[p].which = 0

\* C21: at sizeof(T) = 1 the versions that need a half-size type (2, 3, 5)
\* have the descriptor (false, 0, 0) and are never drawn; the recursive
\* versions 1 and 4 keep weight 100 and are selected whenever one of them
\* is affordable and not excluded; Identity is selected exactly when
\* neither is.
C21_MinimalWidth ==
    \A p \in Narrow :
        /\ \A w \in {2, 3, 5} :
              VersionDescr(w, 1, tree[p].ctx) = ObfDescriptor(FALSE, 0, 0)
        /\ \A w \in {1, 4} :
              /\ VersionDescr(w, 1, tree[p].ctx).is_recursive
              /\ VersionDescr(w, 1, tree[p].ctx).weight = 100
        /\ tree[p].which \in {0, 1, 4}
        /\ tree[p].which # 0 => Affords(p, tree[p].which)
        /\ tree[p].which = 0 <=> ~(Affords(p, 1) \/ Affords(p, 4))

\* a uint8_t variable is given version 4 over a nested version 1
C21_Witness ==
    \E p \in Narrow :
        /\ tree[p].which = 1 /\ Excluded(p) = 4
        /\ tree[Parent(p)].bytes = 1

\* C22: versions 2, 3 and 5 are never selected for an 8-bit T, so that no
\* instance is asked for over a type of half a byte.
C22_WidthLimit ==
    /\ \A p \in Injections : tree[p].bytes = 1 => tree[p].which \notin {2, 3, 5}
    /\ \A p \in Nodes : tree[p].bytes >= 1
    /\ \A i \in 1..Len(pending) : pending[i].req.bytes >= 1

\* a uint16_t is split into lanes of one byte, whose injections have the
\* budget of a lane-splitting version and do without
C22_Witness ==
    \E p \in Injections :
        /\ tree[p].bytes = 1 /\ Len(p) > 1 /\ p[Len(p)] \in {"lo", "hi"}
        /\ tree[Parent(p)].which \in {3, 5}
        /\ tree[p].cycles >= own_min_cycles(5, tree[p].ctx)
        /\ tree[p].which \in {1, 4}

\* C23: the nested injection of a version 1 is never a version 1 and that
\* of a version 4 never a version 4.
C23_NoRepetition ==
    \A p \in Injections :
        tree[p].which \in {1, 4} /\ Append(p, "rec") \in Nodes =>
            tree[Append(p, "rec")].which # tree[p].which

\* under a version 1 that leaves its nested injection the budget of
\* another version 1, another version is nested
C23_Witness ==
    \E p \in Injections :
        /\ tree[p].which = 1 /\ Append(p, "rec") \in Nodes
        /\ tree[Append(p, "rec")].cycles >= own_min_cycles(1, tree[p].ctx)
        /\ tree[Append(p, "rec")].which \notin {0, 1}

\* the costs of the versions 1..5: injection (version 4's without its
\* literal) and surjection
InjectionCost == (1 :> 1) @@ (2 :> 7) @@ (3 :> 7) @@ (4 :> 3) @@ (5 :> 3)
SurjectionCost == (1 :> 1) @@ (2 :> 7) @@ (3 :> 7) @@ (4 :> 3) @@ (5 :> 3)
OwnCost(p) == tree[p].cycles - tree[p].availCycles

\* C24: the charge rule.  Under a literal context a version's own minimum
\* cost is its surjection cost plus the context's leaf cost, under a
\* variable context its injection cost plus its surjection cost: version 1
\* costs 1 for a literal with an identity leaf and 2 for a variable,
\* version 4 costs 3 for such a literal and 3 + 50 + 3 = 56 for a variable.
C24_ChargeRule ==
    \A p \in Injections :
        tree[p].which \in 1..5 =>
            /\ tree[p].ctx.kind = "var" =>
                  OwnCost(p) = InjectionCost[tree[p].which] + SurjectionCost[tree[p].which]
                               + (IF tree[p].which = 4 THEN tree[p].ctx.literal_cycles ELSE 0)
            /\ tree[p].ctx.kind # "var" =>
                  OwnCost(p) = SurjectionCost[tree[p].which] + tree[p].ctx.context_cycles
            /\ tree[p].which = 1 /\ tree[p].ctx.kind = "var" => OwnCost(p) = 2
            /\ tree[p].which = 4 /\ tree[p].ctx.kind = "var" => OwnCost(p) = 56
            /\ tree[p].ctx.kind = "lit" /\ tree[p].ctx.which = 0 =>
                  /\ tree[p].which = 1 => OwnCost(p) = 1
                  /\ tree[p].which = 4 => OwnCost(p) = 3

\* a finished build with a version 4 of a variable and, in its embedded
\* literal, a version under a literal context that costs cycles
C24_Witness ==
    /\ Built
    /\ \E p \in Injections : tree[p].which = 4 /\ tree[p].ctx.kind = "var"
    /\ \E p \in Injections :
          tree[p].which \in 1..5 /\ tree[p].ctx.kind = "lit" /\ tree[p].ctx.context_cycles > 0

\* the constants of the build
Pool == {BuildConsts(OBFUSCATE_SEED)[i] : i \in 0..2}
Additives == {p \in Injections : tree[p].which = 1}

\* C27 as stated: the constant version 1 adds is OBF_CONST_A, OBF_CONST_B
\* or OBF_CONST_C (violated: consts = { 1, A, B, C }, and 1 is drawn too).
C27_Original == \A p \in Additives : \E k \in Pool : tree[p].C = FromNat(k, tree[p].bytes)

\* C27: the constant version 1 adds is, for every seed, one of the four
\* entries of consts: 1, OBF_CONST_A, OBF_CONST_B, OBF_CONST_C, an odd
\* value each.
C27_AdditiveConstant ==
    \A p \in Additives :
        /\ \E k \in Pool \cup {1} : tree[p].C = FromNat(k, tree[p].bytes)
        /\ tree[p].C[1] % 2 = 1

\* a version 1 that adds 1 and one that adds a constant of the build
C27_Witness ==
    /\ \E p \in Additives : tree[p].C = FromNat(1, tree[p].bytes)
    /\ \E p \in Additives : \E k \in Pool : tree[p].C = FromNat(k, tree[p].bytes)

---------------------------------------------------------------------------
(* The literal context version 3 alone: a value through final_injection    *)
(* and final_surjection, in a process with or without a debugger.          *)

LeafContexts ==
    {ObfLiteralContextOf(3, n, s, LitCtxDescr[3].min_cycles, Build([gen |-> 0])) :
        n \in Widths, s \in PickSeeds}
LeafCall(ctx, x) ==
    [fn |-> "leaf", pc |-> "start", ctx |-> ctx, x |-> x, y |-> None, ret |-> None, ok |-> TRUE]

InitLeaf ==
    /\ site = Site("none", 1, 1, 0, 0)
    /\ pending = <<>> /\ tree = EmptyMap /\ charged = EmptyMap
    /\ env \in Envs
    /\ val = [o \in Objects |-> None] /\ shadow = [o \in Objects |-> None]
    /\ statics = EmptyMap
    /\ th = [t \in Threads |-> IdleThread]
    /\ ncalls = 0 /\ failed = FALSE
    /\ inv = Idle /\ ec = Idle
    /\ call \in UNION {{LeafCall(ctx, x) : x \in Values(ctx.bytes)} : ctx \in LeafContexts}

\* y = Context::final_injection(x)
LeafEncode ==
    /\ call.fn = "leaf" /\ call.pc = "start"
    /\ call' = [call EXCEPT !.pc = "encoded", !.y = final_injection(call.ctx, call.x)]
    /\ UNCHANGED <<site, pending, tree, charged, env, val, shadow, statics, th, ncalls, failed,
                   inv, ec>>

\* Context::final_surjection(y)
LeafDecode ==
    /\ call.fn = "leaf" /\ call.pc = "encoded"
    /\ LET e == FinalSurjectionStep(call.ctx, Frame(<<>>, "surj", call.y, None), statics, env)
       IN  call' = [call EXCEPT !.pc = "decoded", !.ret = e.r, !.ok = e.ok]
    /\ UNCHANGED <<site, pending, tree, charged, env, val, shadow, statics, th, ncalls, failed,
                   inv, ec>>

NextLeaf == LeafEncode \/ LeafDecode
SpecLeaf == InitLeaf /\ [][NextLeaf]_vars

LeafDecoded == call.fn = "leaf" /\ call.pc = "decoded"

\* C25: the debugger-presence leaf context.  With obf_peb[2] = 0 the leaf
\* decode inverts the leaf encode for every x; with obf_peb[2] = 1 and the
\* anti-debug code compiled in, decode returns x - CC (mod 2^W), which
\* differs from x; no error is reported in either case.
C25_DebuggerLeaf ==
    LeafDecoded =>
        /\ call.ok
        /\ env.peb2 = 0 => call.ret = call.x
        /\ env.peb2 = 1 /\ ~env.noad =>
              /\ call.ret = Sub(call.x, call.ctx.CC)
              /\ call.ret # call.x

\* under a debugger a uint64_t 0 comes back as 2^64 - CC
C25_Witness ==
    /\ LeafDecoded /\ env.peb2 = 1 /\ ~env.noad
    /\ call.ctx.bytes = 8 /\ call.x = FromNat(0, 8)
    /\ call.ret = Sub(FromNat(0, 8), call.ctx.CC)
    /\ call.ret[8] = 255

---------------------------------------------------------------------------
(* The seed generator and the constants of a build, call by call.          *)

MaxAdvance == 3     \* iterations 1..MaxAdvance

Files == {<<97>>, SourceFile, OBF_LOCATION(SourceFile, NLines)}
ExcludedSets == {e \in SUBSET {Candidates[i] : i \in 0..5} : Cardinality(e) <= 2}

SiteCall(bs, file, line) ==
    [fn |-> "site", seed |-> bs, file |-> file, line |-> line, done |-> FALSE, ret |-> None]
ConstsCall(bs) == [fn |-> "consts", seed |-> bs, done |-> FALSE, ret |-> None]
ConstXCall(seed, excluded) ==
    [fn |-> "constx", seed |-> seed, excluded |-> excluded, done |-> FALSE, ret |-> None]
AdvanceCall(seed, a, b) ==
    [fn |-> "prng", seed |-> seed, a |-> a, b |-> b, done |-> FALSE, ret |-> None]
AdditiveCall(seed, bytes) ==
    [fn |-> "additive", seed |-> seed, bytes |-> bytes, done |-> FALSE, ret |-> None]

InitSeed ==
    /\ NoProgram /\ inv = Idle /\ ec = Idle
    /\ call \in {SiteCall(bs, f, l) : bs \in PickSeeds, f \in Files, l \in 0..NLines}
          \cup {ConstsCall(bs) : bs \in PickSeeds}
          \cup {ConstXCall(s, e) : s \in PickSeeds, e \in ExcludedSets}
          \cup {AdvanceCall(s, a, b) : s \in PickSeeds, a \in 1..MaxAdvance, b \in 1..MaxAdvance}
          \cup {AdditiveCall(s, n) : s \in PickSeeds, n \in Widths}

SeedFromFileLine ==
    Returning("site", obf_seed_from_file_line(call.seed, call.file, call.line))
Consts == Returning("consts", BuildConsts(call.seed))
ConstX == Returning("constx", obf_const_x(call.seed, call.excluded))
Advance ==
    Returning("prng", obf_compile_time_prng(obf_compile_time_prng(call.seed, call.a), call.b))
\* obf_injection_version<1, T, ObfVarContext, seed, cycles> with the budget
\* of a version 1 over another
Additive ==
    Returning("additive",
              obf_injection_version1(
                  Request("inj", call.bytes, ObfVarContext(call.bytes, call.seed, 0), call.seed,
                          2 * own_min_cycles(1, ObfVarContext(call.bytes, call.seed, 0)),
                          NoExclude),
                  Build([gen |-> 0])))

NextSeed == SeedFromFileLine \/ Consts \/ ConstX \/ Advance \/ Additive
SpecSeed == InitSeed /\ [][NextSeed]_vars

Done(fn) == call.fn = fn /\ call.done

\* one step of the generator, and the file's bytes folded into acc with
\* the multiplier m
LcgStep(x) == Add(Mul(LcgMul, x), LcgInc)
RECURSIVE FoldFile(_, _, _, _)
FoldFile(m, acc, file, i) ==
    IF i > Len(file) THEN acc
    ELSE FoldFile(m, Add(Mul(acc, FromNat(m, 8)), FromNat(file[i], 8)), file, i + 1)

\* C26 as stated: every byte is folded with acc = acc*33 + acc + b, that
\* is 34 * acc + b (violated: the code computes (acc << 5) + acc + b).
C26_Original ==
    Done("site") =>
        call.ret = LcgStep(FoldFile(34, Xor(call.seed, FromNat(call.line, 8)), call.file, 1))

\* C26: obf_seed_from_file_line starts from the build seed XOR line, folds
\* every byte b of the file string with acc = acc*32 + acc + b = 33 * acc
\* + b in 64-bit wraparound arithmetic, and applies exactly one step of the
\* generator to the result.
C26_SiteSeed ==
    Done("site") =>
        call.ret = LcgStep(FoldFile(33, Xor(call.seed, FromNat(call.line, 8)), call.file, 1))

\* the seed of a location "a.c : 2" with a line that flips bits of the
\* build seed
C26_Witness ==
    /\ Done("site") /\ Len(call.file) > Len(SourceFile) /\ call.line > 0
    /\ call.ret # LcgStep(FoldFile(33, call.seed, call.file, 1))
    /\ call.ret # FoldFile(33, Xor(call.seed, FromNat(call.line, 8)), call.file, 1)

OddPool == {3, 5, 7, 15, 25, 31}

\* C28: for every build seed OBF_CONST_A, OBF_CONST_B and OBF_CONST_C are
\* pairwise distinct, odd and among 3, 5, 7, 15, 25, 31; obf_const_x never
\* returns an excluded value; so the constants handed to version 4 are odd.
C28_ConstantPool ==
    /\ Done("consts") =>
          /\ \A i \in 0..2 : call.ret[i] \in OddPool /\ call.ret[i] % 2 = 1
          /\ \A i, j \in 0..2 : i # j => call.ret[i] # call.ret[j]
    /\ Done("constx") => call.ret \in OddPool \ call.excluded

\* a draw that would have fallen on an excluded value without the
\* exclusion, and the three constants of a build
C28_Witness ==
    \/ /\ Done("constx") /\ Cardinality(call.excluded) = 2
       /\ Candidates[obf_random_from_list(call.seed, [i \in 0..5 |-> 100])] \in call.excluded
    \/ /\ Done("consts")
       /\ Candidates[obf_random_from_list(
              obf_compile_time_prng(Xor(call.seed, SaltB), 1), [i \in 0..5 |-> 100])]
          = call.ret[0]

\* C30: advancing a seed by a and then by b is advancing it by a + b; so
\* the seed that draws a version 1's constant (the node's, advanced by 2)
\* is the seed its nested injection draws its version with (the node's
\* advanced by 1, then by 1), and the constant is what that seed draws.
C30_AdvanceComposes ==
    /\ Done("prng") => call.ret = obf_compile_time_prng(call.seed, call.a + call.b)
    /\ Done("additive") =>
          /\ call.ret.kids[1].req.seed = LcgStep(call.seed)
          /\ obf_compile_time_prng(call.ret.kids[1].req.seed, 1)
             = obf_compile_time_prng(call.seed, 2)
          /\ call.ret.C
             = FromNat(obf_random_const(obf_compile_time_prng(call.ret.kids[1].req.seed, 1),
                                        Version1Consts(K0)), call.bytes)

\* a seed advanced by MaxAdvance and by MaxAdvance again; a version 1 whose
\* constant is a constant of the build
C30_Witness ==
    \/ Done("prng") /\ call.a = MaxAdvance /\ call.b = MaxAdvance /\ call.ret # call.seed
    \/ Done("additive") /\ call.ret.C # FromNat(1, call.bytes) /\ call.bytes = 8

---------------------------------------------------------------------------
(* The increment and decrement operators of the variables.                 *)

OpSites == {s \in RunSites : s.kind = "var"}
Operators == {"++x", "--x", "x++", "x--"}
Postfix == {"x++", "x--"}

\* what the operator assigns to *this, from the value() it has read:
\*   operator++()    *this = value() + 1      operator--()    *this = value() - 1
\*   operator++(int) *this = value() + 1      operator--(int) *this = value() + 1
Updated(op, x) ==
    CASE op = "++x" -> Add(x, FromNat(1, Len(x)))
      [] op = "--x" -> Sub(x, FromNat(1, Len(x)))
      [] op = "x++" -> Add(x, FromNat(1, Len(x)))
      [] op = "x--" -> Add(x, FromNat(1, Len(x)))

\* the operator op is applied to the variable o: the first value() is
\* called, for ret by the postfix operators and for the assignment by the
\* prefix ones; old is what the variable holds
Operator(o, op) ==
    /\ Free(Main) /\ Constructed(o) /\ call = Idle
    /\ Begin(Main, Task(IF op \in Postfix THEN "old" ELSE "again", o, None),
             Frame(Root(o), "surj", val[o], None))
    /\ call' = [pc |-> "op", op |-> op, o |-> o, old |-> obf_var_dbg_value(o), ret |-> None]
    /\ UNCHANGED <<site, pending, tree, charged, env, val, shadow, statics, ncalls, failed,
                   inv, ec>>

\* obf_var ret = obf_var(value()): value() has returned, ret is constructed
MakeRet ==
    /\ Returned(Main, "old")
    /\ Begin(Main, Task("ret", th[Main].task.o, th[Main].r),
             Frame(Root(th[Main].task.o), "inj", th[Main].r, None))
    /\ UNCHANGED <<site, pending, tree, charged, env, val, shadow, statics, ncalls, failed,
                   inv, ec, call>>

\* ret.val is written; value() is called for the assignment
KeepRet ==
    /\ Returned(Main, "ret")
    /\ call' = [call EXCEPT !.ret = th[Main].r]
    /\ Begin(Main, Task("again", th[Main].task.o, None),
             Frame(Root(th[Main].task.o), "surj", val[th[Main].task.o], None))
    /\ UNCHANGED <<site, pending, tree, charged, env, val, shadow, statics, ncalls, failed,
                   inv, ec>>

\* *this = value() + 1 or value() - 1: value() has returned, operator=
\* injects what the operator assigns (the plain holder assigns it to val)
Update ==
    /\ Returned(Main, "again")
    /\ LET o == th[Main].task.o
       IN  Begin(Main, Task("store", o, Updated(call.op, obf_var_dbg_value(o))),
                 Frame(Root(o), "inj", Updated(call.op, th[Main].r), None))
    /\ call' = [call EXCEPT !.pc = "done"]
    /\ UNCHANGED <<site, pending, tree, charged, env, val, shadow, statics, ncalls, failed,
                   inv, ec>>

\* value() of the holder a postfix operator has returned
RetValue ==
    /\ Free(Main) /\ call # Idle /\ call.pc = "done" /\ call.op \in Postfix
    /\ ncalls < MaxCalls
    /\ Begin(Main, Task("retvalue", call.o, None), Frame(Root(call.o), "surj", call.ret, None))
    /\ ncalls' = ncalls + 1
    /\ UNCHANGED <<site, pending, tree, charged, env, val, shadow, statics, failed, inv, ec, call>>

\* the holder's value() returns to its caller
RetReturn ==
    /\ Returned(Main, "retvalue")
    /\ th' = [th EXCEPT ![Main] = IdleThread]
    /\ UNCHANGED <<site, pending, tree, charged, env, val, shadow, statics, ncalls, failed,
                   inv, ec, call>>

InitOps == Start(OpSites, {NoDebugger})

NextOps ==
    \/ Instantiate
    \/ \E v \in Values(site.bytes) : ConstructVar("a", v)
    \/ \E op \in Operators : Operator("a", op)
    \/ MakeRet
    \/ KeepRet
    \/ Update
    \/ Value(Main, "a")
    \/ RetValue
    \/ Step(Main)
    \/ Store(Main)
    \/ Return(Main)
    \/ RetReturn

SpecOps == InitOps /\ [][NextOps]_vars

Applied(op) == call # Idle /\ call.pc = "done" /\ call.op = op

\* C29: x-- on an obf_var or an obf_var_dbg returns a holder of the old
\* value and leaves the variable holding old - 1: the holder's value() is
\* old, and once the operator has returned the plain holder holds old - 1
\* and every value() of the variable returns old - 1.
C29_PostDecrement ==
    Applied("x--") =>
        /\ Returned(Main, "retvalue") => th[Main].r = call.old
        /\ Free(Main) => obf_var_dbg_value(call.o) = Sub(call.old, FromNat(1, Len(call.old)))
        /\ Returned(Main, "value") => th[Main].r = Sub(call.old, FromNat(1, Len(call.old)))

\* what the code does: the holder returned is of the old value, the
\* variable is left holding old + 1
C29_PostDecrementAdds ==
    Applied("x--") =>
        /\ Returned(Main, "retvalue") => th[Main].r = call.old
        /\ Free(Main) => obf_var_dbg_value(call.o) = Add(call.old, FromNat(1, Len(call.old)))
        /\ Returned(Main, "value") => th[Main].r = Add(call.old, FromNat(1, Len(call.old)))

\* the prefix decrement leaves old - 1
C29_PreDecrement ==
    Applied("--x") /\ Returned(Main, "value") =>
        th[Main].r = Sub(call.old, FromNat(1, Len(call.old)))

====
